---- MODULE Spec2Model ----
(***************************************************************************)
(* Model of the evaluation utilities of multimodalRecommender:             *)
(*   - DataSplitter (seeded RNG, shuffles and the train/test splitters),   *)
(*   - CrossValidator (the per-fold loop and the aggregation).             *)
(* Numbers of the JavaScript source are IEEE doubles; the RNG step is      *)
(* modelled with its double rounding, on 12-bit limbs, because the         *)
(* product state * 1103515245 exceeds 2^53.                                *)
(***************************************************************************)
EXTENDS Integers, Sequences, FiniteSets, TLC

(***************************************************************************)
(* Bounds of the model.                                                    *)
(***************************************************************************)
MaxN == 4
MaxCalls == 2
MaxK == 3
MaxItems == 3

(***************************************************************************)
(* Small helpers.                                                          *)
(***************************************************************************)
Min2(a, b) == IF a <= b THEN a ELSE b
Max2(a, b) == IF a >= b THEN a ELSE b

(* Array.prototype.slice(from, to) on a 1-based sequence, with the         *)
(* 0-based, clamped, negative-from-the-end indices of JavaScript.          *)
Slice(arr, from, to) ==
    LET n == Len(arr)
        f == IF from < 0 THEN Max2(n + from, 0) ELSE Min2(from, n)
        t == IF to < 0 THEN Max2(n + to, 0) ELSE Min2(to, n)
    IN  IF f >= t THEN << >> ELSE SubSeq(arr, f + 1, t)

SliceFrom(arr, from) == Slice(arr, from, Len(arr))

Range(arr) == {arr[x] : x \in DOMAIN arr}

(***************************************************************************)
(* DataSplitter.createSeededRandom: the closure                            *)
(*     state = (state * 1103515245 + 12345) & 0x7fffffff;                  *)
(*     return state / 0x7fffffff;                                          *)
(* A number below 2^72 is six limbs of 12 bits, least significant first.   *)
(***************************************************************************)
PowersOf2 == << 1, 2, 4, 8, 16, 32, 64, 128, 256, 512, 1024, 2048, 4096 >>
LimbBase == 4096
Mask31 == 2147483647
Multiplier == 1103515245
Increment == 12345

Limbs3(x) == << x % LimbBase, (x \div LimbBase) % LimbBase,
               x \div (LimbBase * LimbBase) >>

(* Carry propagation over six limbs. *)
Normalize(c) ==
    LET t1 == c[2] + (c[1] \div LimbBase)
        t2 == c[3] + (t1 \div LimbBase)
        t3 == c[4] + (t2 \div LimbBase)
        t4 == c[5] + (t3 \div LimbBase)
        t5 == c[6] + (t4 \div LimbBase)
    IN  << c[1] % LimbBase, t1 % LimbBase, t2 % LimbBase,
           t3 % LimbBase, t4 % LimbBase, t5 >>

(* Bits of a limb (the top limb of a product stays below 2^13). *)
BitLen12(x) == Cardinality({e \in 1..13 : PowersOf2[e] <= x})

(* Bits of a six-limb number. *)
BitLen(p) ==
    LET used == {i \in 1..6 : p[i] > 0}
        top == IF used = {} THEN 1 ELSE CHOOSE i \in used : \A j \in used : j <= i
    IN  12 * (top - 1) + BitLen12(p[top])

(* Round to the 53-bit significand of a double, ties to even. *)
RoundDouble(p) ==
    LET q == BitLen(p) - 53
    IN  IF q <= 0 THEN p
        ELSE LET unit == PowersOf2[q + 1]
                 r == p[1] % unit
                 odd == ((p[1] \div unit) % 2) = 1
                 up == (2 * r > unit) \/ (2 * r = unit /\ odd)
             IN  Normalize(<< p[1] - r + (IF up THEN unit ELSE 0),
                              p[2], p[3], p[4], p[5], p[6] >>)

(* state * 1103515245 as a double. *)
MulDouble(x, y) ==
    LET s == Limbs3(x)
        a == Limbs3(y)
    IN  RoundDouble(Normalize(<< s[1] * a[1],
                                 s[1] * a[2] + s[2] * a[1],
                                 s[1] * a[3] + s[2] * a[2] + s[3] * a[1],
                                 s[2] * a[3] + s[3] * a[2],
                                 s[3] * a[3],
                                 0 >>))

AddDouble(p, c) ==
    RoundDouble(Normalize(<< p[1] + c, p[2], p[3], p[4], p[5], p[6] >>))

(* ToInt32(x) & 0x7fffffff: the low 31 bits. *)
And31(p) == p[1] + p[2] * LimbBase + (p[3] % 128) * (LimbBase * LimbBase)

(* Mutant: the step in exact integer arithmetic, without the rounding of  *)
(* the double product and sum.                                             *)
RngNextExact(state) ==
    LET s == Limbs3(state)
        a == Limbs3(Multiplier)
    IN  And31(Normalize(<< s[1] * a[1] + Increment,
                           s[1] * a[2] + s[2] * a[1],
                           s[1] * a[3] + s[2] * a[2] + s[3] * a[1],
                           s[2] * a[3] + s[3] * a[2],
                           s[3] * a[3],
                           0 >>))

(* The state after one draw; the draw's value is state / 0x7fffffff. *)
RngNext(state) == And31(AddDouble(MulDouble(state, Multiplier), Increment))

(* Mutant: Math.ceil in place of Math.floor (for a value that is not a     *)
(* multiple of 1/n).                                                       *)
DrawIndexCeil(state, n) ==
    Cardinality({t \in 0..(n - 1) :
        state >= t * (Mask31 \div n) + ((t * (Mask31 % n) + n - 1) \div n)})

(* Math.floor((state / 0x7fffffff) * n) for a small n. 0x7fffffff is prime, *)
(* so for 0 < state < 0x7fffffff the exact quotient is at least 2^-31 away *)
(* from an integer and the double computation has the exact floor.         *)
DrawIndex(state, n) ==
    Cardinality({t \in 1..n :
        state >= t * (Mask31 \div n) + ((t * (Mask31 % n) + n - 1) \div n)})

(***************************************************************************)
(* Records of the dataset: {id, metadata: {<field>: category}}.            *)
(***************************************************************************)
Categories == {"a", "b"}
Undefined == [id |-> 0, cat |-> "undefined"]

(* DataSplitter.extractFieldValue *)
extractFieldValue(item) == item.cat

(* Mutant: the swap writes array[i] only. *)
SwapOverwrite(arr, i, j) ==
    IF j <= Len(arr) THEN [arr EXCEPT ![i] = arr[j]]
    ELSE [arr EXCEPT ![i] = Undefined]

(* [array[i], array[j]] = [array[j], array[i]] with 1-based i, j; writing  *)
(* past the end grows the array and leaves undefined at i.                 *)
Swap(arr, i, j) ==
    IF j <= Len(arr)
    THEN [arr EXCEPT ![i] = arr[j], ![j] = arr[i]]
    ELSE Append([arr EXCEPT ![i] = Undefined], arr[i])

(* DataSplitter.shuffleArray: the loop from position i down to 2. *)
RECURSIVE ShuffleFrom(_, _, _)
ShuffleFrom(arr, i, st) ==
    IF i <= 1 THEN [arr |-> arr, rng |-> st]
    ELSE LET st2 == RngNext(st)
             j == DrawIndex(st2, i) + 1
         IN  ShuffleFrom(Swap(arr, i, j), i - 1, st2)

shuffleArray(arr, st) == ShuffleFrom(arr, Len(arr), st)

(* Keys of the Map `groups`, in insertion (first-seen) order. *)
RECURSIVE GroupKeys(_, _, _)
GroupKeys(data, i, acc) ==
    IF i > Len(data) THEN acc
    ELSE LET c == extractFieldValue(data[i])
         IN  GroupKeys(data, i + 1,
                       IF c \in Range(acc) THEN acc ELSE Append(acc, c))

(* groups.get(category): the items of the category in dataset order. *)
GroupItems(data, c) ==
    LET InCat(item) == extractFieldValue(item) = c
    IN  SelectSeq(data, InCat)

(* Mutant: Math.ceil in place of Math.floor. *)
CeilRatio(count, ratio) == (count * ratio[1] + ratio[2] - 1) \div ratio[2]

(* Math.floor(count * ratio) for a ratio num/den. *)
FloorRatio(count, ratio) == (count * ratio[1]) \div ratio[2]

(* Math.round(sum / k) *)
RoundDiv(sum, k) == (2 * sum + k) \div (2 * k)

NoResult ==
    [op |-> "none", err |-> "none", train |-> << >>, test |-> << >>,
     folds |-> << >>, samples |-> << >>, stats |-> << >>,
     info |-> [total_samples |-> 0]]

(***************************************************************************)
(* DataSplitter.trainTestSplit                                             *)
(***************************************************************************)
trainTestSplit(data, testSize, shuffle, st) ==
    LET sh == IF shuffle THEN shuffleArray(data, st)
              ELSE [arr |-> data, rng |-> st]
        dataCopy == sh.arr
        testCount == FloorRatio(Len(data), testSize)
    IN  [ret |-> [NoResult EXCEPT
                    !.op = "trainTestSplit",
                    !.train = SliceFrom(dataCopy, testCount),
                    !.test = Slice(dataCopy, 0, testCount),
                    !.info = [total_samples |-> Len(data),
                              train_samples |-> Len(dataCopy) - testCount,
                              test_samples |-> testCount]],
         rng |-> sh.rng]

(***************************************************************************)
(* DataSplitter.stratifiedSplit                                            *)
(***************************************************************************)
RECURSIVE StratifiedLoop(_, _, _, _, _, _)
StratifiedLoop(data, keys, g, testSize, minSamplesPerCategory, acc) ==
    IF g > Len(keys) THEN acc
    ELSE
      LET category == keys[g]
          items == GroupItems(data, category)
      IN  IF Len(items) < minSamplesPerCategory
          THEN StratifiedLoop(data, keys, g + 1, testSize, minSamplesPerCategory,
                 [acc EXCEPT
                    !.train = acc.train \o items,
                    !.stats = Append(acc.stats,
                                [category |-> category, total |-> Len(items),
                                 train |-> Len(items), test |-> 0])])
          ELSE
            LET sh == shuffleArray(items, acc.rng)
                testCount == Max2(1, FloorRatio(Len(items), testSize))
                testItems == Slice(sh.arr, 0, testCount)
                trainItems == SliceFrom(sh.arr, testCount)
            IN  StratifiedLoop(data, keys, g + 1, testSize, minSamplesPerCategory,
                  [train |-> acc.train \o trainItems,
                   test |-> acc.test \o testItems,
                   stats |-> Append(acc.stats,
                                [category |-> category, total |-> Len(items),
                                 train |-> Len(trainItems),
                                 test |-> Len(testItems)]),
                   rng |-> sh.rng])

stratifiedSplit(data, testSize, minSamplesPerCategory, st) ==
    LET acc == StratifiedLoop(data, GroupKeys(data, 1, << >>), 1, testSize,
                              minSamplesPerCategory,
                              [train |-> << >>, test |-> << >>,
                               stats |-> << >>, rng |-> st])
    IN  [ret |-> [NoResult EXCEPT
                    !.op = "stratifiedSplit",
                    !.train = acc.train,
                    !.test = acc.test,
                    !.stats = acc.stats,
                    !.info = [total_samples |-> Len(data),
                              train_samples |-> Len(acc.train),
                              test_samples |-> Len(acc.test)]],
         rng |-> acc.rng]

(***************************************************************************)
(* DataSplitter.stratifiedKFoldSplit                                       *)
(***************************************************************************)
EmptyFolds(k) ==
    [i \in 1..k |-> [fold |-> i, train |-> << >>, test |-> << >>,
                     train_size |-> 0, test_size |-> 0]]

(* Mutant: the last fold does not take the remainder. *)
DistributeCategoryNoRemainder(folds, shuffled, k) ==
    LET foldSize == Len(shuffled) \div k
    IN  [i \in 1..k |->
           LET start == (i - 1) * foldSize
               end == start + foldSize
           IN  [folds[i] EXCEPT
                  !.test = @ \o Slice(shuffled, start, end),
                  !.train = @ \o Slice(shuffled, 0, start)
                              \o SliceFrom(shuffled, end)]]

(* The inner loop over the k folds for one shuffled category. *)
DistributeCategory(folds, shuffled, k) ==
    LET foldSize == Len(shuffled) \div k
    IN  [i \in 1..k |->
           LET start == (i - 1) * foldSize
               end == IF i = k THEN Len(shuffled) ELSE start + foldSize
           IN  [folds[i] EXCEPT
                  !.test = @ \o Slice(shuffled, start, end),
                  !.train = @ \o Slice(shuffled, 0, start)
                              \o SliceFrom(shuffled, end)]]

RECURSIVE StratifiedKFoldLoop(_, _, _, _, _)
StratifiedKFoldLoop(data, keys, g, k, acc) ==
    IF g > Len(keys) THEN acc
    ELSE LET sh == shuffleArray(GroupItems(data, keys[g]), acc.rng)
         IN  StratifiedKFoldLoop(data, keys, g + 1, k,
                [folds |-> DistributeCategory(acc.folds, sh.arr, k),
                 rng |-> sh.rng])

SumSizes(folds, which) ==
    LET RECURSIVE Sum(_)
        Sum(i) == IF i = 0 THEN 0
                  ELSE Sum(i - 1) + (IF which = "train" THEN folds[i].train_size
                                     ELSE folds[i].test_size)
    IN  Sum(Len(folds))

FoldInfo(folds, k, total, stratified) ==
    [k |-> k, stratified |-> stratified, total_samples |-> total,
     avg_train_size |-> RoundDiv(SumSizes(folds, "train"), k),
     avg_test_size |-> RoundDiv(SumSizes(folds, "test"), k)]

stratifiedKFoldSplit(data, k, st) ==
    LET acc == StratifiedKFoldLoop(data, GroupKeys(data, 1, << >>), 1, k,
                                   [folds |-> EmptyFolds(k), rng |-> st])
        folds == [i \in 1..k |->
                    [acc.folds[i] EXCEPT
                       !.train_size = Len(acc.folds[i].train),
                       !.test_size = Len(acc.folds[i].test)]]
    IN  [ret |-> [NoResult EXCEPT
                    !.op = "kFoldSplit",
                    !.folds = folds,
                    !.info = FoldInfo(folds, k, Len(data), TRUE)],
         rng |-> acc.rng]

(***************************************************************************)
(* DataSplitter.kFoldSplit                                                 *)
(***************************************************************************)
(* A throw: no result, the rng as the call left it. *)
Thrown(op, message, st) ==
    [ret |-> [NoResult EXCEPT !.op = op, !.err = message], rng |-> st]

(* Mutant: the last fold does not take the remainder. *)
SimpleFoldsNoRemainder(data, dataCopy, k) ==
    LET foldSize == Len(data) \div k
    IN  [i \in 1..k |->
           LET start == (i - 1) * foldSize
               end == start + foldSize
               testFold == Slice(dataCopy, start, end)
               trainFold == Slice(dataCopy, 0, start) \o SliceFrom(dataCopy, end)
           IN  [fold |-> i, train |-> trainFold, test |-> testFold,
                train_size |-> Len(trainFold), test_size |-> Len(testFold)]]

SimpleFolds(data, dataCopy, k) ==
    LET foldSize == Len(data) \div k
    IN  [i \in 1..k |->
           LET start == (i - 1) * foldSize
               end == IF i = k THEN Len(data) ELSE start + foldSize
               testFold == Slice(dataCopy, start, end)
               trainFold == Slice(dataCopy, 0, start) \o SliceFrom(dataCopy, end)
           IN  [fold |-> i, train |-> trainFold, test |-> testFold,
                train_size |-> Len(trainFold), test_size |-> Len(testFold)]]

(* Mutant: the copy is shuffled before k is validated. *)
kFoldSplitShuffleFirst(data, k, shuffle, stratify, st) ==
    LET sh == IF shuffle THEN shuffleArray(data, st)
              ELSE [arr |-> data, rng |-> st]
    IN  IF k < 2 THEN Thrown("kFoldSplit", "k must be at least 2", sh.rng)
        ELSE IF k > Len(data)
        THEN Thrown("kFoldSplit", "k cannot be larger than dataset size", sh.rng)
        ELSE IF stratify
        THEN stratifiedKFoldSplit(sh.arr, k, sh.rng)
        ELSE LET folds == SimpleFolds(data, sh.arr, k)
             IN  [ret |-> [NoResult EXCEPT
                             !.op = "kFoldSplit",
                             !.folds = folds,
                             !.info = FoldInfo(folds, k, Len(data), FALSE)],
                  rng |-> sh.rng]

kFoldSplit(data, k, shuffle, stratify, st) ==
    IF k < 2 THEN Thrown("kFoldSplit", "k must be at least 2", st)
    ELSE IF k > Len(data)
    THEN Thrown("kFoldSplit", "k cannot be larger than dataset size", st)
    ELSE
      LET sh == IF shuffle THEN shuffleArray(data, st)
                ELSE [arr |-> data, rng |-> st]
      IN  IF stratify
          THEN stratifiedKFoldSplit(sh.arr, k, sh.rng)
          ELSE LET folds == SimpleFolds(data, sh.arr, k)
               IN  [ret |-> [NoResult EXCEPT
                               !.op = "kFoldSplit",
                               !.folds = folds,
                               !.info = FoldInfo(folds, k, Len(data), FALSE)],
                    rng |-> sh.rng]

(***************************************************************************)
(* DataSplitter.bootstrapSample                                            *)
(***************************************************************************)
RECURSIVE BootstrapOne(_, _, _, _)
BootstrapOne(data, left, sample, st) ==
    IF left = 0 THEN [arr |-> sample, rng |-> st]
    ELSE LET st2 == RngNext(st)
             randomIndex == DrawIndex(st2, Len(data)) + 1
             item == IF randomIndex \in DOMAIN data THEN data[randomIndex]
                     ELSE Undefined
         IN  BootstrapOne(data, left - 1, Append(sample, item), st2)

RECURSIVE BootstrapLoop(_, _, _, _, _)
BootstrapLoop(data, left, sampleSize, samples, st) ==
    IF left = 0 THEN [samples |-> samples, rng |-> st]
    ELSE LET one == BootstrapOne(data, sampleSize, << >>, st)
         IN  BootstrapLoop(data, left - 1, sampleSize,
                           Append(samples, one.arr), one.rng)

bootstrapSample(data, numSamples, sampleSizeArg, st) ==
    LET sampleSize == IF sampleSizeArg = 0 THEN Len(data) ELSE sampleSizeArg
        b == BootstrapLoop(data, numSamples, sampleSize, << >>, st)
    IN  [ret |-> [NoResult EXCEPT
                    !.op = "bootstrapSample",
                    !.samples = b.samples,
                    !.info = [num_samples |-> numSamples,
                              sample_size |-> sampleSize,
                              original_size |-> Len(data)]],
         rng |-> b.rng]

(***************************************************************************)
(* DataSplitter.leaveOneOutSplit                                           *)
(***************************************************************************)
leaveOneOutSplit(data, st) ==
    [ret |-> [NoResult EXCEPT
                !.op = "leaveOneOutSplit",
                !.folds = [i \in 1..Len(data) |->
                             [fold |-> i,
                              train |-> Slice(data, 0, i - 1) \o SliceFrom(data, i),
                              test |-> << data[i] >>,
                              train_size |-> Len(data) - 1,
                              test_size |-> 1]],
                !.info = [total_splits |-> Len(data),
                          total_samples |-> Len(data)]],
     rng |-> st]

(***************************************************************************)
(* DataSplitter.timeSplit. A record carries the number new Date(value)     *)
(* of its time field.                                                      *)
(***************************************************************************)
RECURSIVE InsertByTime(_, _)
InsertByTime(sorted, x) ==
    IF sorted = << >> THEN << x >>
    ELSE IF sorted[1].timestamp <= x.timestamp
         THEN << sorted[1] >> \o InsertByTime(Tail(sorted), x)
         ELSE << x >> \o sorted

(* [...data].sort((a, b) => new Date(timeA) - new Date(timeB)): stable. *)
RECURSIVE SortByTime(_, _, _)
SortByTime(data, i, acc) ==
    IF i > Len(data) THEN acc
    ELSE SortByTime(data, i + 1, InsertByTime(acc, data[i]))

(* Math.floor(data.length * (1 - testSize)) *)
TimeSplitPoint(count, testSize) ==
    FloorRatio(count, << testSize[2] - testSize[1], testSize[2] >>)

(* sortedData[index] of a 0-based index is undefined outside the array,    *)
(* and extractFieldValue(undefined, timeField) throws a TypeError.         *)
HasIndex(arr, index) == 0 <= index /\ index < Len(arr)

timeSplit(data, testSize, st) ==
    LET sortedData == SortByTime(data, 1, << >>)
        splitPoint == TimeSplitPoint(Len(data), testSize)
    IN  IF ~HasIndex(sortedData, splitPoint - 1) \/ ~HasIndex(sortedData, splitPoint)
        THEN Thrown("timeSplit", "TypeError", st)
        ELSE [ret |-> [NoResult EXCEPT
                         !.op = "timeSplit",
                         !.train = Slice(sortedData, 0, splitPoint),
                         !.test = SliceFrom(sortedData, splitPoint),
                         !.info = [total_samples |-> Len(data),
                                   train_samples |-> splitPoint,
                                   test_samples |-> Len(data) - splitPoint,
                                   train_end_time |->
                                       sortedData[splitPoint].timestamp,
                                   test_start_time |->
                                       sortedData[splitPoint + 1].timestamp]],
              rng |-> st]

(***************************************************************************)
(* ModelEvaluator.shuffle and ModelEvaluator.stratifiedSplit. The values   *)
(* of Math.random() are an input: draw d is draws[d] / RandomSteps, a      *)
(* value in [0, 1).                                                        *)
(***************************************************************************)
RandomSteps == MaxN

RECURSIVE EvalShuffleFrom(_, _, _, _)
EvalShuffleFrom(result, i, draws, used) ==
    IF i <= 1 THEN [arr |-> result, used |-> used]
    ELSE LET j == ((draws[used + 1] * i) \div RandomSteps) + 1
         IN  EvalShuffleFrom(Swap(result, i, j), i - 1, draws, used + 1)

RECURSIVE EvalStratifiedLoop(_, _, _, _, _, _, _)
EvalStratifiedLoop(data, keys, g, testRatio, minSamples, draws, acc) ==
    IF g > Len(keys) THEN acc
    ELSE
      LET items == GroupItems(data, keys[g])
      IN  IF Len(items) < minSamples
          THEN EvalStratifiedLoop(data, keys, g + 1, testRatio, minSamples, draws,
                                  [acc EXCEPT !.train = acc.train \o items])
          ELSE
            LET sh == EvalShuffleFrom(items, Len(items), draws, acc.used)
                testSize == Max2(1, FloorRatio(Len(items), testRatio))
            IN  EvalStratifiedLoop(data, keys, g + 1, testRatio, minSamples, draws,
                  [train |-> acc.train \o SliceFrom(sh.arr, testSize),
                   test |-> acc.test \o Slice(sh.arr, 0, testSize),
                   used |-> sh.used])

evaluatorStratifiedSplit(data, testRatio, minSamples, draws) ==
    EvalStratifiedLoop(data, GroupKeys(data, 1, << >>), 1, testRatio, minSamples,
                       draws, [train |-> << >>, test |-> << >>, used |-> 0])

(***************************************************************************)
(* JavaScript values met in fold results and thrown errors.                *)
(***************************************************************************)
Str(x) == [t |-> "string", s |-> x, n |-> 0]
Num(x) == [t |-> "number", s |-> "", n |-> x]
Undef == [t |-> "undefined", s |-> "", n |-> 0]

(* ToBoolean *)
Truthy(v) ==
    CASE v.t = "string" -> v.s # ""
      [] v.t = "number" -> v.n # 0
      [] OTHER -> FALSE

(* isNaN(v): undefined and the non-numeric strings convert to NaN. *)
IsNaN(v) ==
    CASE v.t = "number" -> FALSE
      [] v.t = "string" -> v.s \notin {"", "0", "1"}
      [] OTHER -> TRUE

(* obj[key] of an object modelled as a function on its keys. *)
Get(obj, key) == IF key \in DOMAIN obj THEN obj[key] ELSE Undef

(***************************************************************************)
(* utils.js: dot, cosineSimilarity and majorityVote.                       *)
(***************************************************************************)
Null == [t |-> "null", s |-> "", n |-> 0]

RECURSIVE DotFrom(_, _, _)
DotFrom(a, b, i) ==
    IF i > Len(a) THEN 0 ELSE a[i] * b[i] + DotFrom(a, b, i + 1)

dot(a, b) == DotFrom(a, b, 1)

cosineSimilarity(a, b) == dot(a, b)

(* The value of a property key that is a canonical array index, -1 for any *)
(* other key. Object.keys lists the array-index keys first, in ascending   *)
(* numeric order, and then the other string keys in insertion order.       *)
ArrayIndex(key) ==
    CASE key = "2011" -> 2011
      [] key = "2012" -> 2012
      [] OTHER -> -1

(* The keys of `counts` in the order the loop at line 21 creates them. *)
RECURSIVE InsertionOrder(_, _, _)
InsertionOrder(items, i, acc) ==
    IF i > Len(items) THEN acc
    ELSE InsertionOrder(items, i + 1,
                        IF items[i] \in Range(acc) THEN acc
                        ELSE Append(acc, items[i]))

RECURSIVE AscendingIndexKeys(_)
AscendingIndexKeys(keys) ==
    IF keys = {} THEN << >>
    ELSE LET least == CHOOSE k \in keys :
                          \A o \in keys : ArrayIndex(k) <= ArrayIndex(o)
         IN  << least >> \o AscendingIndexKeys(keys \ {least})

(* Object.keys(counts) *)
ObjectKeys(created) ==
    LET IsPlain(k) == ArrayIndex(k) < 0
    IN  AscendingIndexKeys({k \in Range(created) : ArrayIndex(k) >= 0})
          \o SelectSeq(created, IsPlain)

(* for (const it of items) counts[it] = (counts[it] || 0) + 1 *)
RECURSIVE CountLoop(_, _, _)
CountLoop(items, i, counts) ==
    IF i > Len(items) THEN counts
    ELSE CountLoop(items, i + 1,
                   IF items[i] \in DOMAIN counts
                   THEN [counts EXCEPT ![items[i]] = @ + 1]
                   ELSE counts @@ (items[i] :> 1))

(* Mutant: the first key wins whatever its count. *)
MaxLoopFirstKey(counts, keys, i, best) ==
    IF keys = << >> THEN best
    ELSE [maxK |-> Str(keys[1]), maxV |-> counts[keys[1]]]

(* The loop of lines 22-25 over the keys from position i on. *)
RECURSIVE MaxLoop(_, _, _, _)
MaxLoop(counts, keys, i, best) ==
    IF i > Len(keys) THEN best
    ELSE MaxLoop(counts, keys, i + 1,
                 IF counts[keys[i]] > best.maxV
                 THEN [maxK |-> Str(keys[i]), maxV |-> counts[keys[i]]]
                 ELSE best)

majorityVoteOf(items, counts) ==
    LET best == MaxLoop(counts, ObjectKeys(InsertionOrder(items, 1, << >>)), 1,
                        [maxK |-> Null, maxV |-> -1])
    IN  [label |-> best.maxK, count |-> Num(best.maxV), counts |-> counts]

majorityVote(items) ==
    majorityVoteOf(items, CountLoop(items, 1, << >>))

(***************************************************************************)
(* predictFromImage and predictFromId. A row of the embeddings file is     *)
(* [id, label, embedding], label being metadata[field] and "" standing for *)
(* a row without the field.                                                *)
(***************************************************************************)
Scored(rows, q) ==
    [x \in DOMAIN rows |->
        [id |-> rows[x].id, label |-> rows[x].label,
         score |-> cosineSimilarity(q, rows[x].embedding)]]

(* Mutant: an unstable sort that puts a later row before its equals. *)
InsertByScoreUnstable(sorted, x) ==
    LET Before(y) == y.score > x.score
        NotBefore(y) == ~Before(y)
    IN  SelectSeq(sorted, Before) \o << x >> \o SelectSeq(sorted, NotBefore)

(* Array.prototype.sort((a, b) => b.score - a.score): stable, descending. *)
RECURSIVE InsertByScore(_, _)
InsertByScore(sorted, x) ==
    IF sorted = << >> THEN << x >>
    ELSE IF sorted[1].score >= x.score
         THEN << sorted[1] >> \o InsertByScore(Tail(sorted), x)
         ELSE << x >> \o sorted

RECURSIVE SortByScore(_, _, _)
SortByScore(sims, i, acc) ==
    IF i > Len(sims) THEN acc
    ELSE SortByScore(sims, i + 1, InsertByScore(acc, sims[i]))

(* topK.map(t => t.metadata[field]).filter(Boolean) *)
LabelsOf(topK) ==
    LET HasField(t) == t.label # ""
        kept == SelectSeq(topK, HasField)
    IN  [x \in DOMAIN kept |-> kept[x].label]

(* labels.length ? majorityVote(labels) : { label: null } *)
Vote(labels) ==
    IF Len(labels) > 0 THEN majorityVote(labels)
    ELSE [label |-> Null, count |-> Undef, counts |-> << >>]

Predicted(op, sims, k) ==
    [op |-> op, kind |-> "returned", topK |-> Slice(sims, 0, k),
     prediction |-> Vote(LabelsOf(Slice(sims, 0, k)))]

NoPrediction ==
    [op |-> "none", kind |-> "none", topK |-> << >>,
     prediction |-> [label |-> Null, count |-> Undef, counts |-> << >>]]

predictFromImage(q, rows, k) ==
    Predicted("predictFromImage", SortByScore(Scored(rows, q), 1, << >>), k)

(* Mutant: the query row stays among the candidates. *)
CandidatesWithQuery(rows, id) == rows

(* rows.filter(r => r.id !== id) *)
Candidates(rows, id) ==
    LET Other(r) == r.id # id
    IN  SelectSeq(rows, Other)

predictFromId(id, rows, k) ==
    IF \A x \in DOMAIN rows : rows[x].id # id
    THEN [NoPrediction EXCEPT !.op = "predictFromId", !.kind = "threw"]
    ELSE LET entry == rows[CHOOSE x \in DOMAIN rows :
                               /\ rows[x].id = id
                               /\ \A y \in DOMAIN rows : rows[y].id = id => y <= x]
         IN  Predicted("predictFromId",
                       SortByScore(Scored(Candidates(rows, id), entry.embedding),
                                   1, << >>), k)

(***************************************************************************)
(* Exact fractions: << numerator, denominator >>, kept in lowest terms. A  *)
(* zero denominator is the NaN of 0 / 0.                                   *)
(***************************************************************************)
RECURSIVE GCD(_, _)
GCD(a, b) == IF b = 0 THEN a ELSE GCD(b, a % b)

Frac(n, d) ==
    IF d = 0 THEN << 0, 0 >>
    ELSE << n \div GCD(n, d), d \div GCD(n, d) >>

FracAdd(a, b) == Frac(a[1] * b[2] + b[1] * a[2], a[2] * b[2])
FracMul(a, b) == Frac(a[1] * b[1], a[2] * b[2])
FracDiv(a, b) == Frac(a[1] * b[2], a[2] * b[1])
Zero == Frac(0, 1)

(***************************************************************************)
(* ModelEvaluator.createConfusionMatrix and computeClassificationMetrics.  *)
(* A label is the sequence of its characters, so that the template         *)
(* `${actual}_${predicted}` and startsWith / endsWith are what they are in *)
(* the code.                                                               *)
(***************************************************************************)
KeyOf(actual, predicted) == actual \o << "_" >> \o predicted

StartsWith(key, prefix) ==
    Len(prefix) <= Len(key) /\ SubSeq(key, 1, Len(prefix)) = prefix

EndsWith(key, suffix) ==
    /\ Len(suffix) <= Len(key)
    /\ SubSeq(key, Len(key) - Len(suffix) + 1, Len(key)) = suffix

RECURSIVE ConfusionLoop(_, _, _, _)
ConfusionLoop(groundTruth, predictions, i, acc) ==
    IF i > Len(groundTruth) THEN acc
    ELSE LET key == KeyOf(groundTruth[i], predictions[i])
         IN  ConfusionLoop(groundTruth, predictions, i + 1,
               [matrix |-> IF key \in DOMAIN acc.matrix
                           THEN [acc.matrix EXCEPT ![key] = @ + 1]
                           ELSE acc.matrix @@ (key :> 1),
                correct |-> IF groundTruth[i] = predictions[i]
                            THEN acc.correct + 1 ELSE acc.correct,
                total |-> acc.total])

createConfusionMatrix(groundTruth, predictions) ==
    ConfusionLoop(groundTruth, predictions, 1,
                  [matrix |-> << >>, correct |-> 0, total |-> Len(groundTruth)])

(* keys.filter(...).reduce((sum, key) => sum + matrix.get(key), 0) *)
RECURSIVE SumOver(_, _)
SumOver(matrix, keys) ==
    IF keys = {} THEN 0
    ELSE LET key == CHOOSE x \in keys : TRUE
         IN  matrix[key] + SumOver(matrix, keys \ {key})

TruePositives(matrix, cls) ==
    IF KeyOf(cls, cls) \in DOMAIN matrix THEN matrix[KeyOf(cls, cls)] ELSE 0

FalsePositives(matrix, cls) ==
    SumOver(matrix, {key \in DOMAIN matrix :
                        /\ EndsWith(key, << "_" >> \o cls)
                        /\ ~StartsWith(key, cls \o << "_" >>)})

FalseNegatives(matrix, cls) ==
    SumOver(matrix, {key \in DOMAIN matrix :
                        /\ StartsWith(key, cls \o << "_" >>)
                        /\ ~EndsWith(key, << "_" >> \o cls)})

Precision(tp, fp) == IF tp > 0 THEN Frac(tp, tp + fp) ELSE Zero
Recall(tp, fn) == IF tp > 0 THEN Frac(tp, tp + fn) ELSE Zero

F1(precision, recall) ==
    IF FracAdd(precision, recall)[1] > 0
    THEN FracDiv(FracMul(Frac(2, 1), FracMul(precision, recall)),
                 FracAdd(precision, recall))
    ELSE Zero

(* The loop of lines 470-486 over the classes not yet visited. *)
RECURSIVE ClassLoop(_, _, _)
ClassLoop(matrix, classes, avg) ==
    IF classes = {} THEN avg
    ELSE LET cls == CHOOSE c \in classes : TRUE
             tp == TruePositives(matrix, cls)
             precision == Precision(tp, FalsePositives(matrix, cls))
             recall == Recall(tp, FalseNegatives(matrix, cls))
         IN  ClassLoop(matrix, classes \ {cls},
                       [precision |-> FracAdd(avg.precision, precision),
                        recall |-> FracAdd(avg.recall, recall),
                        f1 |-> FracAdd(avg.f1, F1(precision, recall))])

MetricsOf(confusion, classes) ==
    LET avg == ClassLoop(confusion.matrix, classes,
                         [precision |-> Zero, recall |-> Zero, f1 |-> Zero])
        n == Frac(Cardinality(classes), 1)
    IN  [accuracy |-> Frac(confusion.correct, confusion.total),
         macro_precision |-> FracDiv(avg.precision, n),
         macro_recall |-> FracDiv(avg.recall, n),
         macro_f1 |-> FracDiv(avg.f1, n)]

computeClassificationMetrics(groundTruth, predictions) ==
    MetricsOf(createConfusionMatrix(groundTruth, predictions),
              Range(groundTruth) \cup Range(predictions))

(***************************************************************************)
(* ModelEvaluator.computeNDCG and computeMAP. The discount                 *)
(* 1 / Math.log2(idx + 2) of the 0-based position idx is kept in units of  *)
(* 1/10000, rounded to the nearest unit.                                   *)
(***************************************************************************)
Discount == << 10000, 6309, 5000, 4307, 3869, 3562, 3333 >>

(* scores.reduce((sum, rel, idx) => sum + rel / Math.log2(idx + 2), 0) *)
RECURSIVE DiscountedSum(_, _)
DiscountedSum(scores, i) ==
    IF i > Len(scores) THEN 0
    ELSE scores[i] * Discount[i] + DiscountedSum(scores, i + 1)

RECURSIVE InsertDescending(_, _)
InsertDescending(sorted, x) ==
    IF sorted = << >> THEN << x >>
    ELSE IF sorted[1] >= x
         THEN << sorted[1] >> \o InsertDescending(Tail(sorted), x)
         ELSE << x >> \o sorted

(* [...scores].sort((a, b) => b - a) *)
RECURSIVE SortDescending(_, _, _)
SortDescending(scores, i, acc) ==
    IF i > Len(scores) THEN acc
    ELSE SortDescending(scores, i + 1, InsertDescending(acc, scores[i]))

NDCGOf(dcg, idcg) == IF idcg > 0 THEN Frac(dcg, idcg) ELSE Zero

computeNDCG(relevanceScores, k) ==
    NDCGOf(DiscountedSum(Slice(relevanceScores, 0, k), 1),
           DiscountedSum(Slice(SortDescending(relevanceScores, 1, << >>), 0, k), 1))

(* relevanceScores.findIndex(score => score > 0), 0-based, -1 if none. *)
FindFirstRelevant(relevanceScores) ==
    IF \A i \in DOMAIN relevanceScores : ~(relevanceScores[i] > 0) THEN -1
    ELSE (CHOOSE i \in DOMAIN relevanceScores :
              /\ relevanceScores[i] > 0
              /\ \A j \in 1..(i - 1) : ~(relevanceScores[j] > 0)) - 1

(* Mutant: the reciprocal of the 0-based index. *)
MrrOfZeroBased(firstRelevantIdx) ==
    IF firstRelevantIdx >= 0 THEN Frac(1, firstRelevantIdx) ELSE Zero

MrrOf(firstRelevantIdx) ==
    IF firstRelevantIdx >= 0 THEN Frac(1, firstRelevantIdx + 1) ELSE Zero

computeMRR(relevanceScores) == MrrOf(FindFirstRelevant(relevanceScores))

(* The loop of computeMAP from position i on. *)
RECURSIVE MapLoop(_, _, _, _)
MapLoop(relevanceScores, i, numRelevant, sumPrecision) ==
    IF i > Len(relevanceScores)
    THEN [numRelevant |-> numRelevant, sumPrecision |-> sumPrecision]
    ELSE IF relevanceScores[i] > 0
         THEN MapLoop(relevanceScores, i + 1, numRelevant + 1,
                      FracAdd(sumPrecision, Frac(numRelevant + 1, i)))
         ELSE MapLoop(relevanceScores, i + 1, numRelevant, sumPrecision)

(* Mutant: the sum of precisions divided by the length of the vector. *)
MapOfOverLength(relevanceScores, acc) ==
    IF acc.numRelevant > 0
    THEN FracDiv(acc.sumPrecision, Frac(Len(relevanceScores), 1))
    ELSE Zero

MapOf(relevanceScores, acc) ==
    IF acc.numRelevant > 0
    THEN FracDiv(acc.sumPrecision, Frac(acc.numRelevant, 1))
    ELSE Zero

computeMAP(relevanceScores) ==
    MapOf(relevanceScores, MapLoop(relevanceScores, 1, 0, Zero))

(***************************************************************************)
(* ModelEvaluator.evaluate and its passes over the test set. A row of the  *)
(* store is [id, metadata, embedding]; metadata maps a field to its value, *)
(* and a row without a metadata object has the empty map.                  *)
(***************************************************************************)
HasMetadata(item) == DOMAIN item.metadata # {}

(* The rows as predictFromId reads them for one field. *)
RowsFor(store, field) ==
    [x \in DOMAIN store |->
        [id |-> store[x].id,
         label |-> IF HasMetadata(store[x]) THEN store[x].metadata[field] ELSE "",
         embedding |-> store[x].embedding]]

(* predictFromId(testItem.id, this.embeddings, k, field): besides the      *)
(* unknown id, t.metadata[field] of a neighbour without metadata throws.   *)
QueryStore(id, store, k, field) ==
    LET p == predictFromId(id, RowsFor(store, field), k)
        Bare(t) == \E x \in DOMAIN store :
                       store[x].id = t.id /\ ~HasMetadata(store[x])
    IN  IF p.kind = "returned" /\ (\E i \in DOMAIN p.topK : Bare(p.topK[i]))
        THEN [NoPrediction EXCEPT !.op = "predictFromId", !.kind = "threw"]
        ELSE p

(* Mutant: no catch, the items whose query threw stay in the lists. *)
AnswersKeepFailed(testItems, store, k, field) ==
    [i \in DOMAIN testItems |->
        [item |-> testItems[i],
         prediction |-> QueryStore(testItems[i].id, store, k, field)]]

(* The try / catch of a per-item loop: the items whose query returned, in  *)
(* test-set order, each with what the query returned.                      *)
Answers(testItems, store, k, field) ==
    LET all == [i \in DOMAIN testItems |->
                  [item |-> testItems[i],
                   prediction |-> QueryStore(testItems[i].id, store, k, field)]]
        Answered(a) == a.prediction.kind = "returned"
    IN  SelectSeq(all, Answered)

(* `${value}`: the characters of a value inside a template literal. *)
Template(v) ==
    CASE v.t = "null" -> << "n", "u", "l", "l" >>
      [] v.t = "undefined" -> << "u", "n", "d", "e", "f", "i", "n", "e", "d" >>
      [] OTHER -> << v.s >>

(* predictions.push(prediction.prediction.label);                          *)
(* ground_truth.push(testItem.metadata[field])                             *)
PushedLists(answers, field) ==
    [predictions |-> [i \in DOMAIN answers |->
                        Template(answers[i].prediction.prediction.label)],
     ground_truth |-> [i \in DOMAIN answers |->
                        Template(Str(answers[i].item.metadata[field]))]]

(* ModelEvaluator.mean over exact fractions. *)
RECURSIVE SumFracs(_, _)
SumFracs(arr, i) ==
    IF i > Len(arr) THEN Zero ELSE FracAdd(arr[i], SumFracs(arr, i + 1))

mean(arr) ==
    IF Len(arr) > 0 THEN FracDiv(SumFracs(arr, 1), Frac(Len(arr), 1)) ELSE Zero

(* metrics[field][`k${k}`] for every field and every k of the lists. *)
evaluateClassification(testItems, store, config) ==
    [field \in Range(config.target_fields) |->
        [k \in Range(config.k_values) |->
            LET lists == PushedLists(Answers(testItems, store, k, field), field)
            IN  computeClassificationMetrics(lists.ground_truth,
                                             lists.predictions)]]

(* prediction.topK.map(item => item.metadata[field] === groundTruth ? 1 : 0) *)
RelevanceScores(answer, field) ==
    [j \in DOMAIN answer.prediction.topK |->
        IF answer.prediction.topK[j].label = answer.item.metadata[field]
        THEN 1 ELSE 0]

evaluateRanking(testItems, store, config) ==
    [field \in Range(config.target_fields) |->
        [k \in Range(config.k_values) |->
            LET answers == Answers(testItems, store, k, field)
            IN  [ndcg |-> mean([i \in DOMAIN answers |->
                            computeNDCG(RelevanceScores(answers[i], field), k)]),
                 mrr |-> mean([i \in DOMAIN answers |->
                            computeMRR(RelevanceScores(answers[i], field))]),
                 map |-> mean([i \in DOMAIN answers |->
                            computeMAP(RelevanceScores(answers[i], field))])]]]

(* The scores of all neighbours returned, and count / topK.length of the   *)
(* answers with a positive count; std, min, max, percentiles and the       *)
(* histogram are further statistics of the same two lists.                 *)
RECURSIVE Similarities(_, _)
Similarities(answers, i) ==
    IF i > Len(answers) THEN << >>
    ELSE [j \in DOMAIN answers[i].prediction.topK |->
             Frac(answers[i].prediction.topK[j].score, 1)]
           \o Similarities(answers, i + 1)

Confidence(answer, n) ==
    IF answer.prediction.prediction.count.t = "number"
    THEN Frac(answer.prediction.prediction.count.n, n)
    ELSE Frac(0, 0)

evaluateRecommendationQuality(testItems, store) ==
    LET answers == Answers(Slice(testItems, 0, 100), store, 10, "articletype")
        Counted(a) == a.prediction.prediction.count.t = "number"
                        /\ a.prediction.prediction.count.n > 0
        confident == SelectSeq(answers, Counted)
    IN  [similarity_distribution |-> [mean |-> mean(Similarities(answers, 1))],
         recommendation_confidence |->
            [mean |-> mean([i \in DOMAIN confident |->
                        Confidence(confident[i],
                                   Len(confident[i].prediction.topK))])]]

(* computeIntraListDiversity *)
IntraListDiversity(topK) ==
    Frac(Cardinality({topK[j].label : j \in DOMAIN topK}), Len(topK))

(* One field of evaluateDiversity; the map over all rows of the store at   *)
(* lines 297-299 is outside the try and throws on a row without metadata. *)
DiversityOf(testItems, store, field) ==
    LET answers == Answers(Slice(testItems, 0, 50), store, 10, field)
        allRecommendations ==
            UNION {{answers[i].prediction.topK[j].label :
                       j \in DOMAIN answers[i].prediction.topK} :
                   i \in DOMAIN answers}
        allCategories == {store[x].metadata[field] : x \in DOMAIN store}
    IN  [catalog_coverage |-> Frac(Cardinality(allRecommendations),
                                   Cardinality(allCategories)),
         avg_intra_list_diversity |->
            mean([i \in DOMAIN answers |->
                    IntraListDiversity(answers[i].prediction.topK)]),
         unique_recommendations |-> Cardinality(allRecommendations)]

evaluateDiversity(testItems, store, config) ==
    IF config.target_fields # << >>
         /\ \E x \in DOMAIN store : ~HasMetadata(store[x])
    THEN [kind |-> "threw", value |-> << >>]
    ELSE [kind |-> "returned",
          value |-> [field \in Range(config.target_fields) |->
                        DiversityOf(testItems, store, field)]]

(* One category of evaluateByCategory: the items of the category whose     *)
(* query returned.                                                         *)
CategoryResults(group, store, field, category) ==
    LET answers == Answers(group, store, 5, field)
        Correct(a) == a.prediction.prediction.label = Str(category)
    IN  [sample_count |-> Len(answers),
         accuracy |-> Frac(Len(SelectSeq(answers, Correct)), Len(answers)),
         avg_confidence |-> mean([i \in DOMAIN answers |->
                                    Confidence(answers[i], 5)])]

evaluateByCategory(testItems, store, config) ==
    [field \in Range(config.target_fields) |->
        LET Group(category) ==
                LET InCategory(item) == item.metadata[field] = category
                IN  SelectSeq(testItems, InCategory)
            analysed ==
                {c \in {testItems[i].metadata[field] : i \in DOMAIN testItems} :
                    /\ Len(Group(c)) >= 3
                    /\ Len(Answers(Group(c), store, 5, field)) > 0}
        IN  [c \in analysed |-> CategoryResults(Group(c), store, field, c)]]

(* evaluatePerformance: prediction_time has one entry per query that       *)
(* returned; throughput is sampleSize / totalTime. The clock readings are  *)
(* not part of the model, the two counts are.                              *)
evaluatePerformance(testItems, store) ==
    LET sampleSize == Min2(50, Len(testItems))
    IN  [prediction_times |->
            Len(Answers(Slice(testItems, 0, sampleSize), store, 5, "articletype")),
         throughput_samples |-> sampleSize]

(* performErrorAnalysis: the confusion matrix and the error cases of the   *)
(* first two target fields.                                                *)
performErrorAnalysis(testItems, store, config) ==
    [field \in Range(Slice(config.target_fields, 0, 2)) |->
        LET lists == PushedLists(Answers(Slice(testItems, 0, 100), store, 5, field),
                                 field)
        IN  [confusion_matrix |->
                createConfusionMatrix(lists.ground_truth, lists.predictions),
             error_cases |->
                Cardinality({i \in DOMAIN lists.predictions :
                                lists.predictions[i] # lists.ground_truth[i]})]]

(* { ...this.config, ...evaluationConfig } *)
MergeConfig(config, evaluationConfig) ==
    [key \in DOMAIN config \cup DOMAIN evaluationConfig |->
        IF key \in DOMAIN evaluationConfig THEN evaluationConfig[key]
        ELSE config[key]]

(***************************************************************************)
(* State.                                                                  *)
(*   data        the dataset handed to the splitter / cross-validator      *)
(*   randomSeed  DataSplitter.randomSeed of each splitter instance         *)
(*   rng         the closure variable `state` of each instance's rng       *)
(*   last        the last call on each instance and what it returned       *)
(*   ncalls      calls made on each instance                               *)
(*   script      the call sequence handed to both instances in the         *)
(*               determinism runs                                          *)
(*   evConfig    ModelEvaluator.config (split ratio, minimum samples)      *)
(*   evSplit     ModelEvaluator.testSet and trainSet once created          *)
(*   cvConfig    CrossValidator.config                                     *)
(*   cvPc        where performCrossValidation stands                       *)
(*   cvFolds, cvInfo   splits.folds and splits.fold_info                   *)
(*   cvI         the loop variable i                                       *)
(*   cvResults   the local array `results`                                 *)
(*   cvInvoked   the foldIndex arguments the callback was invoked with     *)
(*   cvOutcomes  what the callback did in each settled fold                *)
(*   cvRet       what performCrossValidation returned or threw             *)
(*   rows        embeddingsObj.rows, the rows of the embeddings file       *)
(*   query       the call of predictFromId / predictFromImage made         *)
(*   pred        what that call returned                                   *)
(*   items       the argument of majorityVote                              *)
(*   vote        what majorityVote returned                                *)
(*   labelled    the (actual, predicted) pairs handed to the metrics       *)
(*   confusion   what createConfusionMatrix returned                       *)
(*   metrics     what computeClassificationMetrics returned                *)
(*   ranking     the relevance vector and the cutoff k of a ranking metric *)
(*   ndcg        what computeNDCG returned                                 *)
(*   meanAP      what computeMAP returned                                  *)
(*   mrr         what computeMRR returned                                  *)
(*   embeddings  ModelEvaluator.embeddings.rows                            *)
(*   testSet     ModelEvaluator.testSet                                    *)
(*   evaluation  a call of evaluate: this.config, its argument, where it   *)
(*               stands, its local `results` and this.results              *)
(*   evPair      two ModelEvaluators with one random_seed: the test and    *)
(*               train set of each                                         *)
(*   runs        the calls of performCrossValidation made on one           *)
(*               CrossValidator: where each stands, its folds, its local   *)
(*               `results`, the steps it has taken, what it returned       *)
(*   started     the runs in the order they were started                   *)
(***************************************************************************)
VARIABLES data, randomSeed, rng, last, ncalls, script, evConfig, evSplit,
          cvConfig, cvPc, cvFolds, cvInfo, cvI, cvResults, cvInvoked,
          cvOutcomes, cvRet, rows, query, pred, items, vote,
          labelled, confusion, metrics, ranking, ndcg, meanAP, mrr,
          embeddings, testSet, evaluation, evPair, runs, started

splitVars == << data, randomSeed, rng, last, ncalls >>
detVars == << script >>
evVars == << evConfig, evSplit >>
cvVars == << cvConfig, cvPc, cvFolds, cvInfo, cvI, cvResults, cvInvoked,
             cvOutcomes, cvRet >>
predVars == << rows, query, pred >>
voteVars == << items, vote >>
metricVars == << labelled, confusion, metrics >>
rankVars == << ranking, ndcg, meanAP, mrr >>
evalVars == << embeddings, testSet, evaluation >>
pairVars == << evPair >>
runVars == << runs, started >>
restVars == << predVars, voteVars, metricVars, rankVars, evalVars, pairVars,
              runVars >>
vars == << splitVars, detVars, evVars, cvVars, restVars >>

(* Inputs the model draws from. *)
Seeds == {42, 230538014}
Ratios == {<< 1, 5 >>, << 1, 2 >>, << 2, 3 >>}

(* Ratios outside the open interval (0,1): 0, 1.5 and -0.5. *)
OtherRatios == {<< 0, 1 >>, << 3, 2 >>, << -1, 2 >>}
AnyRatio == Ratios \cup OtherRatios
MinSamples == 1..3
SampleSizes == {0, 2}

(* Datasets of n records with unique ids; category names are               *)
(* interchangeable, so the first record's category is fixed.               *)
DatasetsOf(n) ==
    {[i \in 1..n |-> [id |-> i, cat |-> f[i]]] :
        f \in {g \in [1..n -> Categories] : n = 0 \/ g[1] = "a"}}

NoCall == [args |-> << >>, ret |-> NoResult]

DetIdle == script = << >>

NoSplit == [done |-> FALSE, train |-> << >>, test |-> << >>]

(* No ModelEvaluator has been constructed. *)
EvIdle ==
    /\ evConfig = [present |-> FALSE, test_split_ratio |-> << 0, 1 >>,
                   min_category_samples |-> 0]
    /\ evSplit = NoSplit

CvIdle ==
    /\ cvConfig = [k |-> 0, stratify |-> FALSE]
    /\ cvPc = "unused"
    /\ cvFolds = << >>
    /\ cvInfo = [total_samples |-> 0]
    /\ cvI = 0
    /\ cvResults = << >>
    /\ cvInvoked = << >>
    /\ cvOutcomes = << >>
    /\ cvRet = [kind |-> "pending"]

(* constructor(randomSeed): this.rng = this.createSeededRandom(randomSeed) *)
Construct(insts) ==
    /\ randomSeed \in [insts -> Seeds]
    /\ rng = randomSeed
    /\ last = [i \in insts |-> NoCall]
    /\ ncalls = [i \in insts |-> 0]

(* No embeddings loaded, no prediction asked, no vote taken. *)
NoQuery == [op |-> "none", id |-> 0, q |-> << >>, k |-> 0]
NoVote == [label |-> Null, count |-> Undef, counts |-> << >>]
PredIdle == rows = << >> /\ query = NoQuery /\ pred = NoPrediction
VoteIdle == items = << >> /\ vote = NoVote
NoConfusion == [matrix |-> << >>, correct |-> 0, total |-> -1]
NoMetrics == [accuracy |-> << 0, 0 >>, macro_precision |-> << 0, 0 >>,
              macro_recall |-> << 0, 0 >>, macro_f1 |-> << 0, 0 >>]
NoLabels == [groundTruth |-> << >>, predictions |-> << >>]
MetricIdle == labelled = NoLabels /\ confusion = NoConfusion /\ metrics = NoMetrics
NotComputed == << -1, 1 >>
RankIdle ==
    /\ ranking = [relevanceScores |-> << >>, k |-> 0]
    /\ ndcg = NotComputed
    /\ meanAP = NotComputed
    /\ mrr = NotComputed
NoEvaluation ==
    [config |-> << >>, evaluationConfig |-> << >>, pc |-> "unused",
     results |-> << >>, stored |-> << >>]
EvalIdle == embeddings = << >> /\ testSet = << >> /\ evaluation = NoEvaluation
PairIdle == evPair = [random_seed |-> 0, split |-> << >>]
RunsIdle == runs = << >> /\ started = << >>
RestIdle ==
    /\ PredIdle
    /\ VoteIdle
    /\ MetricIdle
    /\ RankIdle
    /\ EvalIdle
    /\ PairIdle
    /\ RunsIdle
SplitIdle == data = << >> /\ Construct({})

(* new ModelEvaluator(config), its embeddings loaded. *)
ConstructEvaluator ==
    /\ evConfig \in [present : {TRUE}, test_split_ratio : AnyRatio,
                      min_category_samples : MinSamples]
    /\ evSplit = NoSplit

(* Either a DataSplitter or a ModelEvaluator has been constructed over the *)
(* dataset.                                                                *)
InitSplit ==
    /\ \E n \in 0..MaxN : data \in DatasetsOf(n)
    /\ \/ Construct({"A"}) /\ EvIdle
       \/ Construct({}) /\ ConstructEvaluator
    /\ DetIdle
    /\ CvIdle
    /\ RestIdle

(* Mutant: one rng state shared by every instance. *)
RngOfShared(inst) == rng["A"]

(* The rng closure an instance's methods draw from (this.rng). *)
RngOf(inst) == rng[inst]

(* The call returns (or throws) r.ret and leaves the rng at r.rng. *)
Finish(inst, args, r) ==
    /\ rng' = [rng EXCEPT ![inst] = r.rng]
    /\ last' = [last EXCEPT ![inst] = [args |-> args, ret |-> r.ret]]
    /\ ncalls' = [ncalls EXCEPT ![inst] = @ + 1]
    /\ UNCHANGED data
    /\ UNCHANGED randomSeed

CanCall(inst) == inst \in DOMAIN rng /\ ncalls[inst] < MaxCalls

TrainTestSplit(inst, testSize, shuffle) ==
    /\ CanCall(inst)
    /\ Finish(inst, << testSize, shuffle >>,
              trainTestSplit(data, testSize, shuffle, RngOf(inst)))
    /\ UNCHANGED << detVars, restVars, evVars, cvVars >>

StratifiedSplit(inst, testSize, minSamplesPerCategory) ==
    /\ CanCall(inst)
    /\ Finish(inst, << testSize, minSamplesPerCategory >>,
              stratifiedSplit(data, testSize, minSamplesPerCategory, RngOf(inst)))
    /\ UNCHANGED << detVars, restVars, evVars, cvVars >>

KFoldSplit(inst, k, shuffle, stratify) ==
    /\ CanCall(inst)
    /\ Finish(inst, << k, shuffle, stratify >>,
              kFoldSplit(data, k, shuffle, stratify, RngOf(inst)))
    /\ UNCHANGED << detVars, restVars, evVars, cvVars >>

BootstrapSample(inst, numSamples, sampleSize) ==
    /\ CanCall(inst)
    /\ Finish(inst, << numSamples, sampleSize >>,
              bootstrapSample(data, numSamples, sampleSize, RngOf(inst)))
    /\ UNCHANGED << detVars, restVars, evVars, cvVars >>

LeaveOneOutSplit(inst) ==
    /\ CanCall(inst)
    /\ Finish(inst, << >>, leaveOneOutSplit(data, RngOf(inst)))
    /\ UNCHANGED << detVars, restVars, evVars, cvVars >>

(* ModelEvaluator.createTestSplit() with the configured split ratio, as   *)
(* evaluate() calls it: only while no test set exists.                    *)
CreateTestSplitWith(split) ==
    evSplit' = [done |-> TRUE, train |-> split.train, test |-> split.test]

CreateTestSplit(draws) ==
    /\ evConfig.present
    /\ ~evSplit.done
    /\ CreateTestSplitWith(
          evaluatorStratifiedSplit(data, evConfig.test_split_ratio,
                                   evConfig.min_category_samples, draws))
    /\ UNCHANGED << splitVars, detVars, restVars, evConfig, cvVars >>

NextSplit ==
    \/ \E r \in AnyRatio, sh \in BOOLEAN : TrainTestSplit("A", r, sh)
    \/ \E r \in AnyRatio, m \in MinSamples : StratifiedSplit("A", r, m)
    \/ \E k \in 0..MaxK, sh \in BOOLEAN, st \in BOOLEAN :
          KFoldSplit("A", k, sh, st)
    \/ \E n \in 1..2, sz \in SampleSizes : BootstrapSample("A", n, sz)
    \/ LeaveOneOutSplit("A")
    \/ \E draws \in [1..(MaxN - 1) -> 0..(RandomSteps - 1)] : CreateTestSplit(draws)

SpecSplit == InitSplit /\ [][NextSplit]_vars

(***************************************************************************)
(* Two splitters constructed with the same seed and given the same call    *)
(* sequence, their calls interleaved in any order.                         *)
(***************************************************************************)
Call(op, ratio, n, m, flag, flag2) ==
    [op |-> op, ratio |-> ratio, n |-> n, m |-> m, flag |-> flag, flag2 |-> flag2]

ScriptCalls ==
    {Call("trainTestSplit", << 1, 2 >>, 0, 0, TRUE, FALSE),
     Call("stratifiedSplit", << 1, 2 >>, 2, 0, FALSE, FALSE),
     Call("kFoldSplit", << 0, 1 >>, 2, 0, TRUE, FALSE),
     Call("kFoldSplit", << 0, 1 >>, 2, 0, TRUE, TRUE),
     Call("bootstrapSample", << 0, 1 >>, 1, 2, FALSE, FALSE)}

InitDet ==
    /\ data \in DatasetsOf(MaxN)
    /\ \E s \in Seeds : randomSeed = [i \in {"A", "B"} |-> s]
    /\ rng = randomSeed
    /\ last = [i \in {"A", "B"} |-> NoCall]
    /\ ncalls = [i \in {"A", "B"} |-> 0]
    /\ \E n \in 1..MaxCalls : script \in [1..n -> ScriptCalls]
    /\ EvIdle
    /\ CvIdle
    /\ RestIdle

NextCall(inst) == script[ncalls[inst] + 1]

HasNextCall(inst, op) ==
    /\ ncalls[inst] < Len(script)
    /\ NextCall(inst).op = op

NextDet ==
    \E inst \in {"A", "B"} :
        \/ /\ HasNextCall(inst, "trainTestSplit")
           /\ TrainTestSplit(inst, NextCall(inst).ratio, NextCall(inst).flag)
        \/ /\ HasNextCall(inst, "stratifiedSplit")
           /\ StratifiedSplit(inst, NextCall(inst).ratio, NextCall(inst).n)
        \/ /\ HasNextCall(inst, "kFoldSplit")
           /\ KFoldSplit(inst, NextCall(inst).n, NextCall(inst).flag,
                         NextCall(inst).flag2)
        \/ /\ HasNextCall(inst, "bootstrapSample")
           /\ BootstrapSample(inst, NextCall(inst).n, NextCall(inst).m)

SpecDet == InitDet /\ [][NextDet]_vars

(***************************************************************************)
(* CrossValidator.                                                         *)
(* An object is a function on its keys; {a, ...b, c} is c @@ b @@ a.       *)
(***************************************************************************)
Bookkeeping == {"fold", "train_size", "test_size", "error"}

(* What the evaluation callback may return ... *)
FoldResults ==
    {("accuracy" :> Num(1)),
     ("accuracy" :> Num(3)),
     ("accuracy" :> Num(2)) @@ ("error" :> Num(1)),
     ("accuracy" :> Str("n/a")) @@ ("f1" :> Num(2))}

(* ... and what it may throw: error.message is undefined on a thrown       *)
(* string, and reading it off undefined or null throws a TypeError.        *)
ThrownValues ==
    {[kind |-> "Error", message |-> Str("boom")],
     [kind |-> "Error", message |-> Str("")],
     [kind |-> "string", message |-> Undef],
     [kind |-> "undefined", message |-> Undef]}

(* CrossValidator.mean, std, Math.min, Math.max over integer values; the   *)
(* mean is the fraction sum/count and std the square root of the fraction  *)
(* variance.                                                               *)
RECURSIVE SumSeq(_)
SumSeq(xs) == IF xs = << >> THEN 0 ELSE Head(xs) + SumSeq(Tail(xs))

Statistics(values) ==
    LET nums == [x \in DOMAIN values |-> values[x].n]
        squares == [x \in DOMAIN values |-> values[x].n * values[x].n]
        count == Len(values)
    IN  [mean |-> << SumSeq(nums), count >>,
         variance |-> << count * SumSeq(squares) - SumSeq(nums) * SumSeq(nums),
                         count * count >>,
         min |-> CHOOSE v \in Range(nums) : \A w \in Range(nums) : v <= w,
         max |-> CHOOSE v \in Range(nums) : \A w \in Range(nums) : v >= w,
         values |-> values]

(* foldResults.filter(r => !r.error) *)
ValidResults(foldResults) ==
    LET NoError(r) == ~Truthy(Get(r, "error"))
    IN  SelectSeq(foldResults, NoError)

(* validResults.map(r => r[metric]).filter(v => !isNaN(v)) *)
MetricValues(validResults, metric) ==
    LET NotNaN(v) == ~IsNaN(v)
    IN  SelectSeq([x \in DOMAIN validResults |-> Get(validResults[x], metric)],
                  NotNaN)

(* CrossValidator.aggregateCrossValidationResults *)
aggregateCrossValidationResults(foldResults, foldInfo) ==
    LET validResults == ValidResults(foldResults)
    IN  IF Len(validResults) = 0
        THEN [kind |-> "threw", error |-> "All cross-validation folds failed"]
        ELSE
          LET sampleResult == validResults[1]
              metricKeys == {key \in DOMAIN sampleResult :
                                /\ key \notin Bookkeeping
                                /\ sampleResult[key].t = "number"}
              reported == {m \in metricKeys :
                              Len(MetricValues(validResults, m)) > 0}
          IN  [kind |-> "returned",
               cv_info |-> foldInfo,
               successful_folds |-> Len(validResults),
               failed_folds |-> Len(foldResults) - Len(validResults),
               metrics |-> [m \in reported |->
                              Statistics(MetricValues(validResults, m))],
               fold_results |-> foldResults]

(* constructor(config) and the state before performCrossValidation runs. *)
InitCV ==
    /\ \E n \in {2, MaxN} :
          data \in {d \in DatasetsOf(n) :
                       \A i \in 1..(n - 1) : d[i].cat = "b" => d[i + 1].cat = "b"}
    /\ Construct({"A"})
    /\ DetIdle
    /\ EvIdle
    /\ RestIdle
    /\ cvConfig \in [k : 1..MaxK, stratify : BOOLEAN]
    /\ cvPc = "init"
    /\ cvFolds = << >>
    /\ cvInfo = [total_samples |-> 0]
    /\ cvI = 0
    /\ cvResults = << >>
    /\ cvInvoked = << >>
    /\ cvOutcomes = << >>
    /\ cvRet = [kind |-> "pending"]

(* performCrossValidation up to its first await: the split, then the       *)
(* callback is invoked for fold 0.                                         *)
StartWith(r) ==
    /\ Finish("A", << cvConfig.k, TRUE, cvConfig.stratify >>, r)
    /\ IF r.ret.err # "none"
       THEN /\ cvPc' = "threw"
            /\ cvRet' = [kind |-> "threw", error |-> r.ret.err]
            /\ UNCHANGED << cvFolds, cvInfo, cvInvoked >>
       ELSE /\ cvPc' = "awaiting"
            /\ cvFolds' = r.ret.folds
            /\ cvInfo' = r.ret.info
            /\ cvInvoked' = << 0 >>
            /\ UNCHANGED cvRet

StartCV ==
    /\ cvPc = "init"
    /\ StartWith(kFoldSplit(data, cvConfig.k, TRUE, cvConfig.stratify, RngOf("A")))
    /\ UNCHANGED << detVars, restVars, evVars, cvConfig, cvI, cvResults, cvOutcomes >>

(* After results.push(entry): the next iteration invokes the callback      *)
(* again, or the loop ends and the results are aggregated.                 *)
Settle(entry) ==
    LET results == Append(cvResults, entry)
    IN  /\ cvResults' = results
        /\ IF cvI + 1 < Len(cvFolds)
           THEN /\ cvI' = cvI + 1
                /\ cvInvoked' = Append(cvInvoked, cvI + 1)
                /\ UNCHANGED << cvPc, cvRet >>
           ELSE /\ cvRet' = aggregateCrossValidationResults(results, cvInfo)
                /\ cvPc' = cvRet'.kind
                /\ UNCHANGED << cvI, cvInvoked >>

FoldSizes ==
    ("train_size" :> Num(cvFolds[cvI + 1].train_size))
        @@ ("test_size" :> Num(cvFolds[cvI + 1].test_size))

(* The awaited callback returns foldResult. *)
CallbackReturns(foldResult) ==
    /\ cvPc = "awaiting"
    /\ cvOutcomes' = Append(cvOutcomes, "returned")
    /\ Settle(FoldSizes @@ foldResult @@ ("fold" :> Num(cvFolds[cvI + 1].fold)))
    /\ UNCHANGED << splitVars, detVars, restVars, evVars, cvConfig, cvFolds, cvInfo >>

(* The awaited callback throws: the catch block reads error.message. *)
CallbackThrows(error) ==
    /\ cvPc = "awaiting"
    /\ cvOutcomes' = Append(cvOutcomes, "threw")
    /\ IF error.kind = "undefined"
       THEN /\ cvPc' = "threw"
            /\ cvRet' = [kind |-> "threw", error |-> "TypeError"]
            /\ UNCHANGED << cvI, cvResults, cvInvoked >>
       ELSE Settle(FoldSizes @@ ("error" :> error.message)
                       @@ ("fold" :> Num(cvFolds[cvI + 1].fold)))
    /\ UNCHANGED << splitVars, detVars, restVars, evVars, cvConfig, cvFolds, cvInfo >>

NextCV ==
    \/ StartCV
    \/ \E foldResult \in FoldResults : CallbackReturns(foldResult)
    \/ \E error \in ThrownValues : CallbackThrows(error)

SpecCV == InitCV /\ [][NextCV]_vars

(***************************************************************************)
(* Predictions over a loaded embeddings file.                              *)
(***************************************************************************)
Embeddings == {<< 1, 0 >>, << 0, 1 >>, << -1, 0 >>}
FieldValues == {"Shirt", ""}

RowsOf(n) ==
    {r \in [1..n -> [id : 1..n, label : FieldValues, embedding : Embeddings]] :
        \A x \in 1..n : r[x].id = x}

(* The calls made: predictFromId(id, rows, k) and                          *)
(* predictFromImage(image, rows, k), q being the embedding of the image.   *)
Queries ==
    [op : {"predictFromId"}, id : 1..(MaxN + 1), q : {<< >>}, k : 0..MaxN]
        \cup [op : {"predictFromImage"}, id : {0}, q : Embeddings, k : 0..MaxN]

InitPredict ==
    /\ \E n \in 0..MaxN : rows \in RowsOf(n)
    /\ query \in Queries
    /\ pred = NoPrediction
    /\ VoteIdle
    /\ MetricIdle
    /\ RankIdle
    /\ SplitIdle
    /\ DetIdle
    /\ EvIdle
    /\ CvIdle
    /\ EvalIdle
    /\ PairIdle
    /\ RunsIdle

PredictFromId ==
    /\ query.op = "predictFromId"
    /\ pred' = predictFromId(query.id, rows, query.k)
    /\ UNCHANGED << splitVars, detVars, evVars, cvVars, evalVars, pairVars,
                    runVars, rows, query, voteVars, metricVars, rankVars >>

PredictFromImage ==
    /\ query.op = "predictFromImage"
    /\ pred' = predictFromImage(query.q, rows, query.k)
    /\ UNCHANGED << splitVars, detVars, evVars, cvVars, evalVars, pairVars,
                    runVars, rows, query, voteVars, metricVars, rankVars >>

NextPredict == PredictFromId \/ PredictFromImage

SpecPredict == InitPredict /\ [][NextPredict]_vars

(***************************************************************************)
(* majorityVote applied to a sequence of labels.                           *)
(***************************************************************************)
VoteLabels == {"Shirt", "Jeans", "2011", "2012"}

InitVote ==
    /\ \E n \in 1..MaxN : items \in [1..n -> VoteLabels]
    /\ vote = NoVote
    /\ PredIdle
    /\ MetricIdle
    /\ RankIdle
    /\ SplitIdle
    /\ DetIdle
    /\ EvIdle
    /\ CvIdle
    /\ EvalIdle
    /\ PairIdle
    /\ RunsIdle

MajorityVote ==
    /\ vote' = majorityVote(items)
    /\ UNCHANGED << splitVars, detVars, evVars, cvVars, evalVars, pairVars,
                    runVars, predVars, items, metricVars, rankVars >>

NextVote == MajorityVote

SpecVote == InitVote /\ [][NextVote]_vars

(***************************************************************************)
(* Ranking metrics over a 0/1 relevance vector.                            *)
(***************************************************************************)
InitRanking ==
    /\ \E n \in 0..MaxN :
          ranking \in [relevanceScores : [1..n -> {0, 1}], k : 0..MaxN]
    /\ ndcg = NotComputed
    /\ meanAP = NotComputed
    /\ mrr = NotComputed
    /\ PredIdle
    /\ VoteIdle
    /\ MetricIdle
    /\ SplitIdle
    /\ DetIdle
    /\ EvIdle
    /\ CvIdle
    /\ EvalIdle
    /\ PairIdle
    /\ RunsIdle

ComputeNDCG ==
    /\ ndcg' = computeNDCG(ranking.relevanceScores, ranking.k)
    /\ UNCHANGED << splitVars, detVars, evVars, cvVars, evalVars, pairVars,
                    runVars, predVars, voteVars,
                    metricVars, ranking, meanAP, mrr >>

ComputeMAP ==
    /\ meanAP' = computeMAP(ranking.relevanceScores)
    /\ UNCHANGED << splitVars, detVars, evVars, cvVars, evalVars, pairVars,
                    runVars, predVars, voteVars,
                    metricVars, ranking, ndcg, mrr >>

ComputeMRR ==
    /\ mrr' = computeMRR(ranking.relevanceScores)
    /\ UNCHANGED << splitVars, detVars, evVars, cvVars, evalVars, pairVars,
                    runVars, predVars, voteVars,
                    metricVars, ranking, ndcg, meanAP >>

NextRanking == ComputeNDCG \/ ComputeMAP \/ ComputeMRR

SpecRanking == InitRanking /\ [][NextRanking]_vars

(***************************************************************************)
(* Classification metrics over lists of actual and predicted labels.       *)
(***************************************************************************)
MetricLabels ==
    {<< "x" >>, << "y" >>, << "x", "_", "x" >>, << "x", "_", "x", "_", "x" >>}

InitMetrics ==
    /\ \E n \in 0..MaxItems :
          labelled \in [groundTruth : [1..n -> MetricLabels],
                        predictions : [1..n -> MetricLabels]]
    /\ confusion = NoConfusion
    /\ metrics = NoMetrics
    /\ PredIdle
    /\ VoteIdle
    /\ RankIdle
    /\ SplitIdle
    /\ DetIdle
    /\ EvIdle
    /\ CvIdle
    /\ EvalIdle
    /\ PairIdle
    /\ RunsIdle

CreateConfusionMatrix ==
    /\ confusion' = createConfusionMatrix(labelled.groundTruth, labelled.predictions)
    /\ UNCHANGED << splitVars, detVars, evVars, cvVars, evalVars, pairVars,
                    runVars, predVars, voteVars,
                    rankVars, labelled, metrics >>

ComputeClassificationMetrics ==
    /\ metrics' = computeClassificationMetrics(labelled.groundTruth,
                                               labelled.predictions)
    /\ UNCHANGED << splitVars, detVars, evVars, cvVars, evalVars, pairVars,
                    runVars, predVars, voteVars,
                    rankVars, labelled, confusion >>

NextMetrics == CreateConfusionMatrix \/ ComputeClassificationMetrics

SpecMetrics == InitMetrics /\ [][NextMetrics]_vars

(***************************************************************************)
(* ModelEvaluator.evaluate over a store and a test set. The test set is    *)
(* the one of an earlier createTestSplit (evaluate splits only when there  *)
(* is none), so its items carry metadata, while initialize() may have      *)
(* loaded another embeddings file since: an id of the test set can be      *)
(* missing from the store and a row of the store can lack its metadata.    *)
(* Field values are single characters.                                     *)
(***************************************************************************)
NoMetadata == << >>
StoreMetadata ==
    {NoMetadata, [articletype |-> "x", gender |-> "m"],
     [articletype |-> "y", gender |-> "m"]}
TestMetadata == [articletype |-> "x", gender |-> "m"]

EmbeddingOf(id) == IF id % 2 = 1 THEN << 1, 0 >> ELSE << 0, 1 >>

Stores(n) ==
    {[x \in 1..n |-> [id |-> x, metadata |-> m[x], embedding |-> EmbeddingOf(x)]] :
        m \in [1..n -> StoreMetadata]}

RECURSIVE Ascending(_)
Ascending(ids) ==
    IF ids = {} THEN << >>
    ELSE LET least == CHOOSE i \in ids : \A j \in ids : i <= j
         IN  << [id |-> least, metadata |-> TestMetadata,
                 embedding |-> EmbeddingOf(least)] >>
               \o Ascending(ids \ {least})

TestSets == {Ascending(ids) : ids \in SUBSET (1..(MaxItems + 1))}

(* The constructor's config and the argument of evaluate. *)
EvaluatorConfigs ==
    {[target_fields |-> << "articletype" >>, k_values |-> << 1, 2 >>],
     [target_fields |-> << "articletype", "gender" >>, k_values |-> << 1 >>]}
EvaluationConfigs ==
    {<< >>, [k_values |-> << 2 >>], [target_fields |-> << "gender" >>]}

InitEvaluate ==
    /\ \E n \in 1..MaxItems : embeddings \in Stores(n)
    /\ testSet \in TestSets
    /\ \E c \in EvaluatorConfigs, e \in EvaluationConfigs :
          evaluation = [NoEvaluation EXCEPT !.config = c,
                                            !.evaluationConfig = e,
                                            !.pc = "idle"]
    /\ PredIdle
    /\ VoteIdle
    /\ MetricIdle
    /\ RankIdle
    /\ SplitIdle
    /\ DetIdle
    /\ EvIdle
    /\ CvIdle
    /\ PairIdle
    /\ RunsIdle

(* results.<part> = await this.<pass>(): the pass returned `value`. *)
StorePart(part, value, next) ==
    /\ evaluation' = [evaluation EXCEPT !.results = @ @@ (part :> value),
                                        !.pc = next]
    /\ UNCHANGED << splitVars, detVars, evVars, cvVars, predVars, voteVars,
                    metricVars, rankVars, pairVars, runVars, embeddings,
                    testSet >>

(* The pass threw: the await rethrows and evaluate rejects. *)
Reject ==
    /\ evaluation' = [evaluation EXCEPT !.pc = "rejected"]
    /\ UNCHANGED << splitVars, detVars, evVars, cvVars, predVars, voteVars,
                    metricVars, rankVars, pairVars, runVars, embeddings,
                    testSet >>

(* evaluate(evaluationConfig) up to its first pass. *)
Evaluate ==
    /\ evaluation.pc = "idle"
    /\ evaluation' =
          [evaluation EXCEPT
             !.results = [config |-> MergeConfig(evaluation.config,
                                                 evaluation.evaluationConfig)],
             !.pc = "classification"]
    /\ UNCHANGED << splitVars, detVars, evVars, cvVars, predVars, voteVars,
                    metricVars, rankVars, pairVars, runVars, embeddings,
                    testSet >>

EvaluateClassification ==
    /\ evaluation.pc = "classification"
    /\ StorePart("classification",
                 evaluateClassification(testSet, embeddings, evaluation.config),
                 "ranking")

EvaluateRanking ==
    /\ evaluation.pc = "ranking"
    /\ StorePart("ranking",
                 evaluateRanking(testSet, embeddings, evaluation.config),
                 "recommendation_quality")

EvaluateRecommendationQuality ==
    /\ evaluation.pc = "recommendation_quality"
    /\ StorePart("recommendation_quality",
                 evaluateRecommendationQuality(testSet, embeddings),
                 "diversity")

DiversityDone(r) ==
    IF r.kind = "threw" THEN Reject
    ELSE StorePart("diversity", r.value, "category_analysis")

EvaluateDiversity ==
    /\ evaluation.pc = "diversity"
    /\ DiversityDone(evaluateDiversity(testSet, embeddings, evaluation.config))

EvaluateByCategory ==
    /\ evaluation.pc = "category_analysis"
    /\ StorePart("category_analysis",
                 evaluateByCategory(testSet, embeddings, evaluation.config),
                 "performance")

EvaluatePerformance ==
    /\ evaluation.pc = "performance"
    /\ StorePart("performance", evaluatePerformance(testSet, embeddings),
                 "error_analysis")

(* The last pass, then this.results = results; return results. *)
ReturnResults(value) ==
    /\ evaluation' =
          [evaluation EXCEPT
             !.results = @ @@ ("error_analysis" :> value),
             !.stored = evaluation.results @@ ("error_analysis" :> value),
             !.pc = "returned"]
    /\ UNCHANGED << splitVars, detVars, evVars, cvVars, predVars, voteVars,
                    metricVars, rankVars, pairVars, runVars, embeddings,
                    testSet >>

PerformErrorAnalysis ==
    /\ evaluation.pc = "error_analysis"
    /\ ReturnResults(performErrorAnalysis(testSet, embeddings, evaluation.config))

NextEvaluate ==
    \/ Evaluate
    \/ EvaluateClassification
    \/ EvaluateRanking
    \/ EvaluateRecommendationQuality
    \/ EvaluateDiversity
    \/ EvaluateByCategory
    \/ EvaluatePerformance
    \/ PerformErrorAnalysis

SpecEvaluate == InitEvaluate /\ [][NextEvaluate]_vars

(***************************************************************************)
(* Two ModelEvaluators constructed with the same config, hence the same    *)
(* random_seed, over the same embeddings; each creates its test split.     *)
(* ModelEvaluator.shuffle draws from Math.random(), which no seed governs: *)
(* the draws of each call are an input.                                    *)
(***************************************************************************)
InitEvalPair ==
    /\ \E n \in 0..MaxK : data \in DatasetsOf(n)
    /\ Construct({})
    /\ evConfig \in [present : {TRUE}, test_split_ratio : Ratios,
                      min_category_samples : MinSamples]
    /\ evSplit = NoSplit
    /\ \E s \in Seeds :
          evPair = [random_seed |-> s, split |-> [e \in {"A", "B"} |-> NoSplit]]
    /\ DetIdle
    /\ CvIdle
    /\ PredIdle
    /\ VoteIdle
    /\ MetricIdle
    /\ RankIdle
    /\ EvalIdle
    /\ RunsIdle

PairSplitWith(e, split) ==
    evPair' = [evPair EXCEPT
                 !.split[e] = [done |-> TRUE, train |-> split.train,
                               test |-> split.test]]

(* The first createTestSplit() of evaluator e. *)
CreateTestSplitOf(e, draws) ==
    /\ ~evPair.split[e].done
    /\ PairSplitWith(e, evaluatorStratifiedSplit(data, evConfig.test_split_ratio,
                                                 evConfig.min_category_samples,
                                                 draws))
    /\ UNCHANGED << splitVars, detVars, evVars, cvVars, predVars, voteVars,
                    metricVars, rankVars, evalVars, runVars >>

NextEvalPair ==
    \E e \in {"A", "B"}, draws \in [1..(MaxK - 1) -> 0..(RandomSteps - 1)] :
        CreateTestSplitOf(e, draws)

SpecEvalPair == InitEvalPair /\ [][NextEvalPair]_vars

(***************************************************************************)
(* timeSplit over records with a time field.                               *)
(***************************************************************************)
Timestamps == 1..2

TimedDatasetsOf(n) ==
    {[i \in 1..n |-> [id |-> i, cat |-> "a", timestamp |-> t[i]]] :
        t \in [1..n -> Timestamps]}

InitTime ==
    /\ \E n \in 0..MaxN : data \in TimedDatasetsOf(n)
    /\ Construct({"A"})
    /\ DetIdle
    /\ EvIdle
    /\ CvIdle
    /\ RestIdle

TimeSplit(inst, testSize) ==
    /\ CanCall(inst)
    /\ Finish(inst, << testSize >>, timeSplit(data, testSize, RngOf(inst)))
    /\ UNCHANGED << detVars, restVars, evVars, cvVars >>

NextTime == \E r \in AnyRatio : TimeSplit("A", r)

SpecTime == InitTime /\ [][NextTime]_vars

(***************************************************************************)
(* The rng closure drawn from directly (splitter.rng()), between shuffles  *)
(* and bootstrap samples that draw from it as well.                        *)
(***************************************************************************)
MaxDraws == 20
RngSeeds == Seeds \cup {0, 1, Mask31}

InitRng ==
    /\ data \in DatasetsOf(MaxN)
    /\ randomSeed \in [{"A"} -> RngSeeds]
    /\ rng = randomSeed
    /\ last = [i \in {"A"} |-> NoCall]
    /\ ncalls = [i \in {"A"} |-> 0]
    /\ DetIdle
    /\ EvIdle
    /\ CvIdle
    /\ RestIdle

(* One call of the closure: the state steps, state / 0x7fffffff is         *)
(* returned; the result records the numerator.                             *)
rngCall(st) ==
    [ret |-> [NoResult EXCEPT !.op = "rng", !.info = [value |-> RngNext(st)]],
     rng |-> RngNext(st)]

Rng(inst) ==
    /\ ncalls[inst] < MaxDraws
    /\ Finish(inst, << >>, rngCall(RngOf(inst)))
    /\ UNCHANGED << detVars, restVars, evVars, cvVars >>

NextRng ==
    \/ Rng("A")
    \/ \E r \in Ratios : TrainTestSplit("A", r, TRUE)
    \/ \E n \in 1..2, sz \in SampleSizes : BootstrapSample("A", n, sz)

SpecRng == InitRng /\ [][NextRng]_vars

(***************************************************************************)
(* Two calls of performCrossValidation on one CrossValidator, over the     *)
(* same data; the second may start while the first awaits a callback.      *)
(* Each run records the steps it takes: "split" (the kFoldSplit call),     *)
(* "invoke" and "settle" (a callback invoked, then resolved or rejected),  *)
(* "aggregate".                                                            *)
(***************************************************************************)
RunIds == {1, 2}

NoRun ==
    [pc |-> "init", folds |-> << >>, info |-> [total_samples |-> 0], i |-> 0,
     results |-> << >>, steps |-> << >>, ret |-> [kind |-> "pending"]]

(* What a callback of these runs does. *)
RunFoldResults == {("accuracy" :> Num(1))}
RunThrownValues ==
    {[kind |-> "Error", message |-> Str("boom")],
     [kind |-> "undefined", message |-> Undef]}

InitRuns ==
    /\ data \in {d \in DatasetsOf(MaxN) :
                    \A i \in 1..(MaxN - 1) : d[i].cat = "b" => d[i + 1].cat = "b"}
    /\ Construct({"A"})
    /\ cvConfig \in [k : 1..MaxK, stratify : BOOLEAN]
    /\ cvPc = "unused"
    /\ cvFolds = << >>
    /\ cvInfo = [total_samples |-> 0]
    /\ cvI = 0
    /\ cvResults = << >>
    /\ cvInvoked = << >>
    /\ cvOutcomes = << >>
    /\ cvRet = [kind |-> "pending"]
    /\ runs = [r \in RunIds |-> NoRun]
    /\ started = << >>
    /\ DetIdle
    /\ EvIdle
    /\ PredIdle
    /\ VoteIdle
    /\ MetricIdle
    /\ RankIdle
    /\ EvalIdle
    /\ PairIdle

(* Mutant: every run splits with a fresh rng of the configured seed. *)
SplitOfRunReseeded(st) ==
    kFoldSplit(data, cvConfig.k, TRUE, cvConfig.stratify, randomSeed["A"])

(* this.splitter.kFoldSplit(data, this.config.k, true, stratify) *)
SplitOfRun(st) == kFoldSplit(data, cvConfig.k, TRUE, cvConfig.stratify, st)

(* performCrossValidation up to its first await. *)
StartRunWith(r, s) ==
    /\ Finish("A", << cvConfig.k, TRUE, cvConfig.stratify >>, s)
    /\ started' = Append(started, r)
    /\ runs' = [runs EXCEPT ![r] =
          IF s.ret.err # "none"
          THEN [@ EXCEPT !.pc = "threw", !.steps = << "split" >>,
                         !.ret = [kind |-> "threw", error |-> s.ret.err]]
          ELSE [@ EXCEPT !.pc = "awaiting", !.folds = s.ret.folds,
                         !.info = s.ret.info,
                         !.steps = << "split", "invoke" >>]]

StartRun(r) ==
    /\ runs[r].pc = "init"
    /\ StartRunWith(r, SplitOfRun(RngOf("A")))
    /\ UNCHANGED << detVars, evVars, cvVars, predVars, voteVars, metricVars,
                    rankVars, evalVars, pairVars >>

(* results.push(entry), then the next iteration or the aggregation. *)
RunSettled(r, results, ret) ==
    /\ runs' = [runs EXCEPT ![r] =
          IF runs[r].i + 1 < Len(runs[r].folds)
          THEN [@ EXCEPT !.results = results, !.i = @ + 1,
                         !.steps = @ \o << "settle", "invoke" >>]
          ELSE [@ EXCEPT !.results = results, !.ret = ret, !.pc = ret.kind,
                         !.steps = @ \o << "settle", "aggregate" >>]]
    /\ UNCHANGED << splitVars, detVars, evVars, cvVars, predVars, voteVars,
                    metricVars, rankVars, evalVars, pairVars, started >>

RunSettle(r, entry) ==
    RunSettled(r, Append(runs[r].results, entry),
               aggregateCrossValidationResults(Append(runs[r].results, entry),
                                               runs[r].info))

RunFoldSizes(r) ==
    ("train_size" :> Num(runs[r].folds[runs[r].i + 1].train_size))
        @@ ("test_size" :> Num(runs[r].folds[runs[r].i + 1].test_size))

RunCallbackReturns(r, foldResult) ==
    /\ runs[r].pc = "awaiting"
    /\ RunSettle(r, RunFoldSizes(r) @@ foldResult
                      @@ ("fold" :> Num(runs[r].folds[runs[r].i + 1].fold)))

(* The catch block; reading error.message off undefined throws. *)
RunCallbackThrows(r, error) ==
    /\ runs[r].pc = "awaiting"
    /\ IF error.kind = "undefined"
       THEN /\ runs' = [runs EXCEPT ![r] =
                 [@ EXCEPT !.pc = "threw", !.steps = @ \o << "settle" >>,
                           !.ret = [kind |-> "threw", error |-> "TypeError"]]]
            /\ UNCHANGED << splitVars, detVars, evVars, cvVars, predVars,
                            voteVars, metricVars, rankVars, evalVars, pairVars,
                            started >>
       ELSE RunSettle(r, RunFoldSizes(r) @@ ("error" :> error.message)
                           @@ ("fold" :> Num(runs[r].folds[runs[r].i + 1].fold)))

NextRuns ==
    \E r \in RunIds :
        \/ StartRun(r)
        \/ \E foldResult \in RunFoldResults : RunCallbackReturns(r, foldResult)
        \/ \E error \in RunThrownValues : RunCallbackThrows(r, error)

SpecRuns == InitRuns /\ [][NextRuns]_vars

(***************************************************************************)
(* Vocabulary of the splitter claims.                                      *)
(***************************************************************************)
LastOp(inst) == IF inst \in DOMAIN last THEN last[inst].ret.op ELSE "none"
LastOk(inst) == last[inst].ret.err = "none"
N == Len(data)

(* train and test split `whole` exactly: no record lost, none added, none  *)
(* twice (the lengths add up and every record of `whole` is there).        *)
IsPartition(train, test, whole) ==
    /\ Range(train) \cap Range(test) = {}
    /\ Range(train) \cup Range(test) = Range(whole)
    /\ Len(train) + Len(test) = Len(whole)

NoRepeatedId(arr) ==
    \A x, y \in DOMAIN arr : arr[x].id = arr[y].id => x = y

CountOf(arr, c) == Cardinality({x \in DOMAIN arr : arr[x].cat = c})

ValidK(k) == 2 <= k /\ k <= N

(* The ratio num/den lies in the open interval (0,1). *)
InUnitInterval(ratio) == 0 < ratio[1] /\ ratio[1] < ratio[2]

IsKFold(inst, stratified) ==
    /\ LastOp(inst) = "kFoldSplit"
    /\ last[inst].args[3] = stratified

(***************************************************************************)
(* C4: non-stratified kFoldSplit(data, k) with 2 <= k <= N returns k folds *)
(* whose test sets partition the dataset exactly; every test set has       *)
(* floor(N/k) records except the last, which has N - (k-1)*floor(N/k).     *)
(***************************************************************************)
C4_KFoldPartition ==
    \A inst \in DOMAIN last :
        (IsKFold(inst, FALSE) /\ ValidK(last[inst].args[1])) =>
            LET k == last[inst].args[1]
                folds == last[inst].ret.folds
            IN  /\ LastOk(inst)
                /\ Len(folds) = k
                /\ \A r \in Range(data) :
                      Cardinality({i \in 1..k : r \in Range(folds[i].test)}) = 1
                /\ \A i \in 1..k : Range(folds[i].test) \subseteq Range(data)
                /\ \A i \in 1..k :
                      Len(folds[i].test) =
                          IF i < k THEN N \div k ELSE N - (k - 1) * (N \div k)

(* A shuffled 3-fold split of 4 records: the last fold takes the remainder *)
(* and the shuffle has moved the first record out of the first fold.       *)
C4_Witness ==
    /\ IsKFold("A", FALSE)
    /\ last["A"].args = << 3, TRUE, FALSE >>
    /\ N = 4
    /\ Len(last["A"].ret.folds[3].test) = 2
    /\ last["A"].ret.folds[1].test # << data[1] >>

C6_TrainTestDisjoint ==
    \A inst \in DOMAIN last :
        LET ret == last[inst].ret
        IN  /\ (ret.op \in {"trainTestSplit", "stratifiedSplit"}) =>
                  /\ IsPartition(ret.train, ret.test, data)
                  /\ NoRepeatedId(ret.train)
                  /\ NoRepeatedId(ret.test)
            /\ (ret.op \in {"kFoldSplit", "leaveOneOutSplit"}) =>
                  \A i \in DOMAIN ret.folds :
                      /\ IsPartition(ret.folds[i].train, ret.folds[i].test, data)
                      /\ NoRepeatedId(ret.folds[i].train)
                      /\ NoRepeatedId(ret.folds[i].test)

(* A stratified k-fold split of a two-category dataset, made after an      *)
(* earlier call had advanced the rng.                                      *)
C6_Witness ==
    /\ IsKFold("A", TRUE)
    /\ LastOk("A")
    /\ ncalls["A"] = 2
    /\ rng["A"] # randomSeed["A"]
    /\ \E c \in Categories : CountOf(data, c) \in 1..(N - 1)
    /\ \E i \in DOMAIN last["A"].ret.folds :
          Len(last["A"].ret.folds[i].test) >= 2

(***************************************************************************)
(* C7: trainTestSplit(data, ratio, shuffle), ratio in (0,1), any seed:     *)
(* |test| = floor(|D|*ratio), train and test together are exactly D and    *)
(* share nothing; no record is replaced by a non-record value.             *)
(***************************************************************************)
C7_TrainTestSplit ==
    \A inst \in DOMAIN last :
        (LastOp(inst) = "trainTestSplit" /\ InUnitInterval(last[inst].args[1])) =>
            LET ret == last[inst].ret
                ratio == last[inst].args[1]
            IN  /\ Len(ret.test) = (N * ratio[1]) \div ratio[2]
                /\ IsPartition(ret.train, ret.test, data)
                /\ Undefined \notin Range(ret.train) \cup Range(ret.test)

(* A shuffled split under the seed whose exact linear-congruential step    *)
(* would be 0x7fffffff; the shuffle has changed the order.                 *)
C7_Witness ==
    /\ LastOp("A") = "trainTestSplit"
    /\ last["A"].args = << << 1, 2 >>, TRUE >>
    /\ randomSeed["A"] = 230538014
    /\ ncalls["A"] = 1
    /\ N = 4
    /\ last["A"].ret.test \o last["A"].ret.train # data

(***************************************************************************)
(* The DataSplitter half of C8: stratifiedSplit(data, ratio, field,        *)
(* minPerCategory) keeps a category with fewer than minPerCategory records *)
(* wholly in train, puts exactly max(1, floor(count*ratio)) records of any *)
(* other category in test and the rest in train, and reports those counts. *)
(***************************************************************************)
C8_StratifiedSplit ==
    \A inst \in DOMAIN last :
        (LastOp(inst) = "stratifiedSplit" /\ InUnitInterval(last[inst].args[1])) =>
            LET ret == last[inst].ret
                ratio == last[inst].args[1]
                minPer == last[inst].args[2]
                Expected(c) ==
                    IF CountOf(data, c) < minPer THEN 0
                    ELSE Max2(1, (CountOf(data, c) * ratio[1]) \div ratio[2])
            IN  /\ \A c \in Categories :
                      /\ CountOf(ret.test, c) = Expected(c)
                      /\ CountOf(ret.train, c) = CountOf(data, c) - Expected(c)
                /\ {ret.stats[x].category : x \in DOMAIN ret.stats} =
                      {c \in Categories : CountOf(data, c) > 0}
                /\ \A x \in DOMAIN ret.stats :
                      LET st == ret.stats[x]
                      IN  /\ st.total = CountOf(data, st.category)
                          /\ st.test = CountOf(ret.test, st.category)
                          /\ st.train = CountOf(ret.train, st.category)

(* The same rule in ModelEvaluator.stratifiedSplit, whose minimum is       *)
(* config.min_category_samples.                                            *)
C8_EvaluatorSplit ==
    (evSplit.done /\ InUnitInterval(evConfig.test_split_ratio)) =>
        LET ratio == evConfig.test_split_ratio
            Expected(c) ==
                IF CountOf(data, c) < evConfig.min_category_samples THEN 0
                ELSE Max2(1, (CountOf(data, c) * ratio[1]) \div ratio[2])
        IN  \A c \in Categories :
                /\ CountOf(evSplit.test, c) = Expected(c)
                /\ CountOf(evSplit.train, c) = CountOf(data, c) - Expected(c)


(***************************************************************************)
(* C8: stratifiedSplit(data, ratio, field, minPerCategory), in             *)
(* DataSplitter and in ModelEvaluator: every record of a category with     *)
(* fewer than minPerCategory members is in train and none in test; every   *)
(* other category has exactly max(1, floor(count*ratio)) records in test   *)
(* and the rest in train; the reported per-category counts equal those     *)
(* numbers.                                                                *)
(***************************************************************************)
C8_BothSplitters == C8_StratifiedSplit /\ C8_EvaluatorSplit

(* One category kept out of test for being too small, the other split. *)
C8_Witness ==
    /\ LastOp("A") = "stratifiedSplit"
    /\ last["A"].args[2] = 2
    /\ \E c, d \in Categories :
          /\ CountOf(data, c) = 1
          /\ CountOf(last["A"].ret.train, c) = 1
          /\ CountOf(data, d) = 3
          /\ CountOf(last["A"].ret.test, d) >= 1
          /\ CountOf(last["A"].ret.train, d) >= 1

(***************************************************************************)
(* C9: two DataSplitters constructed with the same seed that have received *)
(* the same calls so far have returned the same result for the last of     *)
(* them and hold the same rng state, however their calls interleave.       *)
(***************************************************************************)
C9_Determinism ==
    (DOMAIN last = {"A", "B"} /\ randomSeed["A"] = randomSeed["B"]
        /\ ncalls["A"] = ncalls["B"]) =>
        /\ last["A"] = last["B"]
        /\ rng["A"] = rng["B"]

(* Both instances have made two rng-consuming calls; A finished both       *)
(* before B's second.                                                      *)
C9_Witness ==
    /\ DOMAIN last = {"A", "B"}
    /\ ncalls["A"] = 2
    /\ ncalls["B"] = 2
    /\ LastOp("A") = "kFoldSplit"
    /\ LastOk("A")
    /\ rng["A"] # randomSeed["A"]
    /\ last["A"].ret.folds[1].test # << data[1], data[2] >>

(***************************************************************************)
(* C10: a kFoldSplit call with k < 2 or k > N throws, produces no fold and *)
(* leaves the rng state as it was.                                         *)
(***************************************************************************)
C10_KFoldRejects ==
    [][\A inst \in DOMAIN last :
          (/\ ncalls'[inst] # ncalls[inst]
           /\ last'[inst].ret.op = "kFoldSplit"
           /\ ~ValidK(last'[inst].args[1])) =>
              /\ last'[inst].ret.err # "none"
              /\ last'[inst].ret.folds = << >>
              /\ rng'[inst] = rng[inst]]_vars

(* A rejected call on a splitter whose rng an earlier call had advanced. *)
C10_Witness ==
    /\ LastOp("A") = "kFoldSplit"
    /\ ~LastOk("A")
    /\ last["A"].args[1] > N
    /\ last["A"].args[2]
    /\ N >= 2
    /\ ncalls["A"] = 2
    /\ rng["A"] # randomSeed["A"]

(***************************************************************************)
(* Vocabulary of the cross-validation claims.                              *)
(***************************************************************************)
(* performCrossValidation has split the data and has returned or thrown. *)
CvDone == cvPc \in {"returned", "threw"} /\ cvFolds # << >>

(* The folds whose callback threw, and those whose callback returned. *)
ThrewIn == {i \in DOMAIN cvOutcomes : cvOutcomes[i] = "threw"}
ReturnedIn == {i \in DOMAIN cvOutcomes : cvOutcomes[i] = "returned"}

AllFoldsFailed ==
    cvPc = "threw" /\ cvRet.error = "All cross-validation folds failed"

(* The values of `metric` the callbacks of the folds in `folds` returned,  *)
(* in fold order.                                                          *)
ReturnedValues(metric, folds) ==
    LET Wanted(r) == r["fold"].n \in folds /\ ~IsNaN(Get(r, metric))
        picked == SelectSeq(cvResults, Wanted)
    IN  [x \in DOMAIN picked |-> picked[x][metric]]

(***************************************************************************)
(* C1: when the callback throws in a non-empty proper subset F of the k    *)
(* folds, whatever it throws, performCrossValidation returns normally,     *)
(* reports failed_folds = |F| and successful_folds = k - |F|, and every    *)
(* aggregated metric is computed from the values of the folds not in F.    *)
(***************************************************************************)
C1_PartialFailure ==
    (CvDone /\ ThrewIn # {} /\ ReturnedIn # {}) =>
        /\ cvPc = "returned"
        /\ cvRet.failed_folds = Cardinality(ThrewIn)
        /\ cvRet.successful_folds = cvConfig.k - Cardinality(ThrewIn)
        /\ \A m \in DOMAIN cvRet.metrics :
              cvRet.metrics[m].values = ReturnedValues(m, ReturnedIn)

(***************************************************************************)
(* C2: the callback is invoked once per fold with foldIndex 0..k-1 in      *)
(* order; a throw in a fold is recorded as a {fold, error} entry and the   *)
(* later folds still run; fold_results has exactly k entries.              *)
(***************************************************************************)
C2_EveryFoldRuns ==
    /\ \A i \in DOMAIN cvInvoked : cvInvoked[i] = i - 1
    /\ CvDone =>
          /\ Len(cvInvoked) = cvConfig.k
          /\ Len(cvResults) = cvConfig.k
          /\ \A i \in ThrewIn :
                /\ i \in DOMAIN cvResults
                /\ "error" \in DOMAIN cvResults[i]
                /\ cvResults[i]["fold"] = Num(i)

(***************************************************************************)
(* C3: performCrossValidation fails with the all-folds-failed error if and *)
(* only if the callback threw in every one of the k folds.                 *)
(***************************************************************************)
C3_AllFoldsFailedIff ==
    CvDone =>
        (AllFoldsFailed <=> (ThrewIn = 1..cvConfig.k))

(***************************************************************************)
(* C11: a split ratio outside the open interval (0,1) is rejected with a   *)
(* configuration error: trainTestSplit and stratifiedSplit return no       *)
(* partition for it, and a ModelEvaluator configured with it creates no    *)
(* test split.                                                             *)
(***************************************************************************)
C11_RatioRejected ==
    /\ \A inst \in DOMAIN last :
          (/\ LastOp(inst) \in {"trainTestSplit", "stratifiedSplit"}
           /\ ~InUnitInterval(last[inst].args[1])) =>
              /\ last[inst].ret.err # "none"
              /\ last[inst].ret.train = << >>
              /\ last[inst].ret.test = << >>
    /\ evSplit.done => InUnitInterval(evConfig.test_split_ratio)

(***************************************************************************)
(* Vocabulary of the prediction claims.                                    *)
(***************************************************************************)
Returned(op) == pred.op = op /\ pred.kind = "returned"

(* The rows a query by id is compared with, in dataset order. *)
OtherRows == {x \in DOMAIN rows : rows[x].id # query.id}

QueryEmbedding ==
    rows[CHOOSE x \in DOMAIN rows : rows[x].id = query.id].embedding

(***************************************************************************)
(* C12: for an id present in the store and any k, the topK returned by     *)
(* predictFromId contains no candidate whose id is the query id.           *)
(***************************************************************************)
C12_NoSelfMatch ==
    Returned("predictFromId") =>
        \A x \in DOMAIN pred.topK : pred.topK[x].id # query.id

(* Every other row is returned, one of them as similar to the query as the *)
(* query row itself.                                                       *)
C12_Witness ==
    /\ Returned("predictFromId")
    /\ Len(rows) >= 3
    /\ Len(pred.topK) = Len(rows) - 1
    /\ \E x \in DOMAIN pred.topK :
          pred.topK[x].score = dot(QueryEmbedding, QueryEmbedding)

(***************************************************************************)
(* C13: the topK of predictFromId holds candidates with their similarity   *)
(* to the query, in non-increasing order of score, candidates of equal     *)
(* score in dataset order, and has min(k, number of rows whose id is not   *)
(* the query id) entries: all candidates when k exceeds their number.      *)
(***************************************************************************)
C13_TopKOrder ==
    Returned("predictFromId") =>
        LET topK == pred.topK
        IN  /\ Len(topK) = Min2(query.k, Cardinality(OtherRows))
            /\ \A x \in DOMAIN topK :
                  /\ topK[x].id \in {rows[y].id : y \in OtherRows}
                  /\ topK[x].score = dot(QueryEmbedding, rows[topK[x].id].embedding)
            /\ \A x, y \in DOMAIN topK :
                  x < y => \/ topK[x].score > topK[y].score
                           \/ /\ topK[x].score = topK[y].score
                              /\ topK[x].id < topK[y].id
            /\ \A y \in OtherRows :
                  (\A x \in DOMAIN topK : topK[x].id # rows[y].id) =>
                      \A x \in DOMAIN topK :
                          topK[x].score >= dot(QueryEmbedding, rows[y].embedding)

(* k exceeds the candidates; two of them tie and a later row outranks an   *)
(* earlier one.                                                            *)
C13_Witness ==
    /\ Returned("predictFromId")
    /\ query.k > Len(pred.topK)
    /\ \E x, y \in DOMAIN pred.topK :
          /\ x < y
          /\ pred.topK[x].score = pred.topK[y].score
    /\ \E x, y \in DOMAIN pred.topK :
          /\ x < y
          /\ pred.topK[x].id > pred.topK[y].id

(***************************************************************************)
(* Vocabulary of the vote claims.                                          *)
(***************************************************************************)
Voted == vote # NoVote

Occurrences(seq, l) == Cardinality({i \in DOMAIN seq : seq[i] = l})

MostOccurrences ==
    CHOOSE m \in 0..Len(items) :
        /\ \A l \in Range(items) : Occurrences(items, l) <= m
        /\ \E l \in Range(items) : Occurrences(items, l) = m

C15_TieFirstSeen ==
    Voted =>
        \E x \in DOMAIN items :
            /\ vote.label = Str(items[x])
            /\ Occurrences(items, items[x]) = MostOccurrences
            /\ \A y \in 1..(x - 1) : Occurrences(items, items[y]) < MostOccurrences

(***************************************************************************)
(* C16: when no neighbour in topK has the field, topK being empty          *)
(* included, the prediction of predictFromId and of predictFromImage is    *)
(* {label: null, count: 0}.                                                *)
(***************************************************************************)
C16_NoFieldPrediction ==
    (pred.kind = "returned" /\ \A x \in DOMAIN pred.topK : pred.topK[x].label = "") =>
        /\ pred.prediction.label = Null
        /\ pred.prediction.count = Num(0)

(***************************************************************************)
(* Vocabulary of the classification-metric claims.                         *)
(***************************************************************************)
Compared == DOMAIN labelled.groundTruth

Classes == Range(labelled.groundTruth) \cup Range(labelled.predictions)

(* The compared items whose actual label satisfies a and predicted label p *)
ActualIs(c) == {i \in Compared : labelled.groundTruth[i] = c}
PredictedIs(c) == {i \in Compared : labelled.predictions[i] = c}

CorrectPredictions ==
    Cardinality({i \in Compared : labelled.groundTruth[i] = labelled.predictions[i]})

RECURSIVE SumFracOver(_, _)
SumFracOver(f, S) ==
    IF S = {} THEN Zero
    ELSE LET c == CHOOSE x \in S : TRUE
         IN  FracAdd(f[c], SumFracOver(f, S \ {c}))

MeanOverClasses(f) ==
    FracDiv(SumFracOver(f, Classes), Frac(Cardinality(Classes), 1))

ClassPrecision ==
    [c \in Classes |->
        LET tp == Cardinality(ActualIs(c) \cap PredictedIs(c))
            fp == Cardinality(PredictedIs(c) \ ActualIs(c))
        IN  IF tp > 0 THEN Frac(tp, tp + fp) ELSE Zero]

ClassRecall ==
    [c \in Classes |->
        LET tp == Cardinality(ActualIs(c) \cap PredictedIs(c))
            fn == Cardinality(ActualIs(c) \ PredictedIs(c))
        IN  IF tp > 0 THEN Frac(tp, tp + fn) ELSE Zero]

ClassF1 ==
    [c \in Classes |->
        IF ClassPrecision[c][1] > 0
        THEN FracDiv(FracMul(Frac(2, 1), FracMul(ClassPrecision[c], ClassRecall[c])),
                     FracAdd(ClassPrecision[c], ClassRecall[c]))
        ELSE Zero]

(***************************************************************************)
(* C17: in the confusion matrix of equal-length lists of actual and        *)
(* predicted labels the entries sum to the number of compared items, and   *)
(* the diagonal entries, read as computeClassificationMetrics reads them,  *)
(* sum to the number of correct predictions, which is `correct`.           *)
(***************************************************************************)
C17_ConfusionMatrix ==
    (confusion # NoConfusion) =>
        /\ SumOver(confusion.matrix, DOMAIN confusion.matrix) = Cardinality(Compared)
        /\ confusion.total = Cardinality(Compared)
        /\ confusion.correct = CorrectPredictions
        /\ SumFracOver([c \in Classes |->
                           Frac(TruePositives(confusion.matrix, c), 1)], Classes)
              = Frac(CorrectPredictions, 1)

(***************************************************************************)
(* C18: macro precision, recall and F1 are the unweighted means over the   *)
(* union of the actual and predicted labels of the per-class values, the   *)
(* per-class counts being TP = #(actual = c, predicted = c),               *)
(* FP = #(actual # c, predicted = c), FN = #(actual = c, predicted # c),   *)
(* a class without true positives contributing 0, for any label strings.   *)
(***************************************************************************)
C18_MacroMetrics ==
    (metrics # NoMetrics /\ Compared # {}) =>
        /\ metrics.macro_precision = MeanOverClasses(ClassPrecision)
        /\ metrics.macro_recall = MeanOverClasses(ClassRecall)
        /\ metrics.macro_f1 = MeanOverClasses(ClassF1)

(***************************************************************************)
(* Vocabulary of the ranking-metric claims.                                *)
(***************************************************************************)
FirstK == Slice(ranking.relevanceScores, 0, ranking.k)

Relevant(scores) == {i \in DOMAIN scores : scores[i] > 0}

(***************************************************************************)
(* C19: computeNDCG(rel, k) is DCG / IDCG with both computed from the      *)
(* first k entries of rel, the IDCG from those entries sorted descending:  *)
(* it is 0 when they hold no relevant item and 1 when every relevant one   *)
(* among them precedes every irrelevant one.                               *)
(***************************************************************************)
C19_NDCGOfFirstK ==
    (ndcg # NotComputed) =>
        /\ ndcg = NDCGOf(DiscountedSum(FirstK, 1),
                         DiscountedSum(SortDescending(FirstK, 1, << >>), 1))
        /\ Relevant(FirstK) = {} => ndcg = Zero
        /\ (/\ Relevant(FirstK) # {}
            /\ \A i \in Relevant(FirstK) : \A j \in DOMAIN FirstK \ Relevant(FirstK) : i < j)
              => ndcg = Frac(1, 1)

(***************************************************************************)
(* C20: computeMAP(rel) of a 0/1 relevance vector is the mean, over the    *)
(* relevant positions i (counted from 1), of the number of relevant        *)
(* entries among the first i divided by i, and 0 when none is relevant.    *)
(***************************************************************************)
C20_MeanAveragePrecision ==
    (meanAP # NotComputed) =>
        LET rel == ranking.relevanceScores
            PrecisionAt == [i \in Relevant(rel) |->
                               Frac(Cardinality({j \in Relevant(rel) : j <= i}), i)]
        IN  meanAP = IF Relevant(rel) = {} THEN Zero
                     ELSE FracDiv(SumFracOver(PrecisionAt, Relevant(rel)),
                                  Frac(Cardinality(Relevant(rel)), 1))

(* MAP([1,0,1]) = 5/6 *)
C20_Witness ==
    /\ ranking.relevanceScores = << 1, 0, 1 >>
    /\ meanAP = << 5, 6 >>

(***************************************************************************)
(* C21: computeMRR(rel) is 1 / (position, counted from 1, of the first     *)
(* relevant entry) and 0 when no entry is relevant.                        *)
(***************************************************************************)
C21_ReciprocalRank ==
    (mrr # NotComputed) =>
        LET rel == ranking.relevanceScores
        IN  IF Relevant(rel) = {} THEN mrr = Zero
            ELSE \E i \in Relevant(rel) :
                    /\ \A j \in Relevant(rel) : i <= j
                    /\ mrr[1] * i = mrr[2]
                    /\ mrr[2] # 0

(* MRR([0,0,1,0]) = 1/3 *)
C21_Witness ==
    /\ ranking.relevanceScores = << 0, 0, 1, 0 >>
    /\ mrr = << 1, 3 >>

(***************************************************************************)
(* Vocabulary of the aggregation claim.                                    *)
(***************************************************************************)
(* The entry of the first fold whose callback returned. *)
FirstSuccessful ==
    cvResults[CHOOSE i \in ReturnedIn : \A j \in ReturnedIn : i <= j]

NumericKeys(result) ==
    {key \in DOMAIN result : key \notin Bookkeeping /\ result[key].t = "number"}

RECURSIVE SquaredDeviations(_, _, _)
SquaredDeviations(values, sum, i) ==
    IF i > Len(values) THEN 0
    ELSE (Len(values) * values[i].n - sum) * (Len(values) * values[i].n - sum)
            + SquaredDeviations(values, sum, i + 1)

(***************************************************************************)
(* C22: the aggregated metric keys are the numeric-valued keys of the      *)
(* first successful fold's result, bookkeeping keys excluded; the raw      *)
(* values of a key are its values in all successful folds, in fold order;  *)
(* min <= mean <= max, min and max are raw values, and std is the          *)
(* population standard deviation.                                          *)
(***************************************************************************)
C22_Aggregation ==
    (CvDone /\ cvPc = "returned" /\ ReturnedIn # {}) =>
        /\ DOMAIN cvRet.metrics = NumericKeys(FirstSuccessful)
        /\ \A m \in DOMAIN cvRet.metrics :
              LET st == cvRet.metrics[m]
                  count == Len(st.values)
                  sum == SumSeq([x \in DOMAIN st.values |-> st.values[x].n])
              IN  /\ st.values = ReturnedValues(m, ReturnedIn)
                  /\ st.mean = << sum, count >>
                  /\ st.min * count <= sum
                  /\ sum <= st.max * count
                  /\ Num(st.min) \in Range(st.values)
                  /\ Num(st.max) \in Range(st.values)
                  /\ st.variance[1] * count * count * count
                        = st.variance[2] * SquaredDeviations(st.values, sum, 1)

(***************************************************************************)
(* Vocabulary of the evaluate claims.                                      *)
(***************************************************************************)
Passes ==
    {"classification", "ranking", "recommendation_quality", "diversity",
     "category_analysis", "performance", "error_analysis"}

Computed(part) == part \in DOMAIN evaluation.results
EvaluateReturned == evaluation.pc = "returned"
EvaluateSettled == evaluation.pc \in {"returned", "rejected"}

(* The positions of the test items whose query with (k, field) returns. *)
AnsweredItems(k, field) ==
    {i \in DOMAIN testSet :
        QueryStore(testSet[i].id, embeddings, k, field).kind = "returned"}

SomeQueryFails ==
    \E i \in DOMAIN testSet : i \notin AnsweredItems(1, "articletype")

CorrectlyPredicted(k, field) ==
    {i \in AnsweredItems(k, field) :
        QueryStore(testSet[i].id, embeddings, k, field).prediction.label
            = Str(testSet[i].metadata[field])}

(* Every accuracy is taken over the answered items and them only. *)
ClassificationOverAnswered ==
    Computed("classification") =>
        \A field \in DOMAIN evaluation.results.classification :
            \A k \in DOMAIN evaluation.results.classification[field] :
                evaluation.results.classification[field][k].accuracy
                    = Frac(Cardinality(CorrectlyPredicted(k, field)),
                           Cardinality(AnsweredItems(k, field)))

(* Every confusion matrix counts the answered items and them only. *)
ErrorAnalysisOverAnswered ==
    Computed("error_analysis") =>
        \A field \in DOMAIN evaluation.results.error_analysis :
            LET matrix == evaluation.results.error_analysis[field].confusion_matrix
            IN  /\ matrix.total = Cardinality(AnsweredItems(5, field))
                /\ matrix.correct = Cardinality(CorrectlyPredicted(5, field))

(* Every mean reciprocal rank is the mean over the answered items. *)
RankingOverAnswered ==
    Computed("ranking") =>
        \A field \in DOMAIN evaluation.results.ranking :
            \A k \in DOMAIN evaluation.results.ranking[field] :
                LET answered == AnsweredItems(k, field)
                    rr == [i \in answered |->
                             computeMRR(RelevanceScores(
                                [item |-> testSet[i],
                                 prediction |-> QueryStore(testSet[i].id,
                                                  embeddings, k, field)], field))]
                IN  evaluation.results.ranking[field][k].mrr
                        = IF answered = {} THEN Zero
                          ELSE FracDiv(SumFracOver(rr, answered),
                                       Frac(Cardinality(answered), 1))

(* One timing per answered item of the sample. *)
TimingsOverAnswered ==
    Computed("performance") =>
        evaluation.results.performance.prediction_times
            = Cardinality(AnsweredItems(5, "articletype"))

(* The throughput counts the answered items and them only. *)
ThroughputOverAnswered ==
    Computed("performance") =>
        evaluation.results.performance.throughput_samples
            = Cardinality(AnsweredItems(5, "articletype"))

MetricNames ==
    {"accuracy", "macro_precision", "macro_recall", "macro_f1",
     "ndcg", "mrr", "map"}

(* The entry has a key besides its metric values. *)
ReportsCount(entry) == DOMAIN entry \ MetricNames # {}

(***************************************************************************)
(* C24: the results object evaluate returns after some query failed        *)
(* reports, in every classification and every ranking entry, a count of    *)
(* the skipped (or of the scored) items next to the metric values.         *)
(***************************************************************************)
C24_SkippedReported ==
    (EvaluateReturned /\ SomeQueryFails) =>
        \A part \in {"classification", "ranking"} :
            \A field \in DOMAIN evaluation.results[part] :
                \A k \in DOMAIN evaluation.results[part][field] :
                    ReportsCount(evaluation.results[part][field][k])

(***************************************************************************)
(* C25: evaluate always returns, and its results hold every pass other     *)
(* than the ones that failed (in the model the diversity pass is the one   *)
(* that can fail).                                                         *)
(***************************************************************************)
C25_FailureIsolated ==
    EvaluateSettled =>
        /\ EvaluateReturned
        /\ \A part \in Passes \ {"diversity"} : Computed(part)

(***************************************************************************)
(* C30: in the returned results, classification and ranking have exactly   *)
(* one entry per field of results.config.target_fields and, under each,    *)
(* exactly one entry per value of results.config.k_values.                 *)
(***************************************************************************)
C30_ConfigOfMetrics ==
    EvaluateReturned =>
        \A part \in {"classification", "ranking"} :
            /\ DOMAIN evaluation.results[part]
                  = Range(evaluation.results.config.target_fields)
            /\ \A field \in DOMAIN evaluation.results[part] :
                  DOMAIN evaluation.results[part][field]
                      = Range(evaluation.results.config.k_values)

(***************************************************************************)
(* C26: two ModelEvaluators with the same random_seed over the same        *)
(* embeddings get the same test set and the same train set from            *)
(* createTestSplit.                                                        *)
(***************************************************************************)
C26_SameSeedSameSplit ==
    (evPair.split["A"].done /\ evPair.split["B"].done) =>
        /\ evPair.split["A"].test = evPair.split["B"].test
        /\ evPair.split["A"].train = evPair.split["B"].train

(***************************************************************************)
(* Vocabulary of the timeSplit claim.                                      *)
(***************************************************************************)
AscendingTime(arr) ==
    \A x, y \in DOMAIN arr : x < y => arr[x].timestamp <= arr[y].timestamp

(* timeSplit of a non-empty dataset with a ratio in (0,1) was called. *)
TimeSplitCalled ==
    /\ LastOp("A") = "timeSplit"
    /\ N > 0
    /\ InUnitInterval(last["A"].args[1])

(* What the claim says of a call that returned. *)
TimeSplitResult ==
    LET ret == last["A"].ret
        ratio == last["A"].args[1]
    IN  /\ Len(ret.train) = (N * (ratio[2] - ratio[1])) \div ratio[2]
        /\ IsPartition(ret.train, ret.test, data)
        /\ AscendingTime(ret.train \o ret.test)
        /\ \A x \in DOMAIN ret.train, y \in DOMAIN ret.test :
              ret.train[x].timestamp <= ret.test[y].timestamp
        /\ rng["A"] = randomSeed["A"]

(* The calls that return do what the claim says. *)
TimeSplitWhenReturned ==
    (TimeSplitCalled /\ LastOk("A")) => TimeSplitResult

(***************************************************************************)
(* C27: timeSplit of a non-empty dataset with a ratio in (0,1) returns;    *)
(* train is the first floor(N * (1 - ratio)) records of the dataset sorted *)
(* ascending by timestamp, test the remaining ones, so no train timestamp  *)
(* exceeds a test timestamp; the rng is not drawn from.                    *)
(***************************************************************************)
C27_TimeSplit ==
    TimeSplitCalled => (LastOk("A") /\ TimeSplitResult)

(***************************************************************************)
(* C28: every value the seeded rng returns is at least 0 and below 1, so   *)
(* floor(value * n) is an index in 0..n-1; a shuffle returns a permutation *)
(* of its input and every element of a bootstrap sample is a record of the *)
(* dataset.                                                                *)
(***************************************************************************)
C28_UnitInterval ==
    LET ret == last["A"].ret
    IN  /\ ret.op = "rng" =>
              /\ 0 <= ret.info.value
              /\ ret.info.value < Mask31
              /\ \A n \in 1..MaxN : DrawIndex(ret.info.value, n) \in 0..(n - 1)
        /\ ret.op = "trainTestSplit" =>
              /\ IsPartition(ret.train, ret.test, data)
              /\ Undefined \notin Range(ret.train) \cup Range(ret.test)
        /\ ret.op = "bootstrapSample" =>
              \A s \in DOMAIN ret.samples :
                  \A x \in DOMAIN ret.samples[s] :
                      ret.samples[s][x] \in Range(data)

(* The last of MaxDraws draws under the seed whose exact step is           *)
(* 0x7fffffff.                                                             *)
C28_Witness ==
    /\ LastOp("A") = "rng"
    /\ ncalls["A"] = MaxDraws
    /\ randomSeed["A"] = 230538014

(***************************************************************************)
(* Vocabulary of the overlapping-runs claim.                               *)
(***************************************************************************)
PhaseOf(step) ==
    CASE step = "split" -> 1
      [] step \in {"invoke", "settle"} -> 2
      [] OTHER -> 3

StepCount(steps, step) == Cardinality({x \in DOMAIN steps : steps[x] = step})

(* Splitting, then the folds, then the aggregation, none revisited: the    *)
(* split is the first step and the only one, a fold is invoked only after  *)
(* the one before it has settled, and the aggregation comes after all k    *)
(* callbacks have settled.                                                 *)
PhasesInOrder(run) ==
    /\ run.steps # << >> => run.steps[1] = "split"
    /\ StepCount(run.steps, "split") <= 1
    /\ \A x, y \in DOMAIN run.steps :
          x < y => PhaseOf(run.steps[x]) <= PhaseOf(run.steps[y])
    /\ StepCount(run.steps, "invoke") - StepCount(run.steps, "settle") \in {0, 1}
    /\ StepCount(run.steps, "aggregate") <= 1
    /\ StepCount(run.steps, "aggregate") = 1 =>
          /\ StepCount(run.steps, "settle") = cvConfig.k
          /\ Len(run.folds) = cvConfig.k
    /\ run.pc = "returned" => StepCount(run.steps, "aggregate") = 1

(* The split a kFoldSplit call of these runs makes from the rng state st. *)
SplitFrom(st) == kFoldSplit(data, cvConfig.k, TRUE, cvConfig.stratify, st)

(* The split the first kFoldSplit call of the instance makes. *)
FirstSplit == SplitFrom(randomSeed["A"])

(* The second call starts from the rng state the first one left: the run   *)
(* has these folds and leaves the rng where this second split leaves it.   *)
IsSecondSplit(run) ==
    \A st \in {FirstSplit.rng} :
        /\ run.folds = SplitFrom(st).ret.folds
        /\ rng["A"] = SplitFrom(st).rng

(***************************************************************************)
(* C29: every run goes through splitting, the per-fold executions and the  *)
(* aggregation in this order (a run that throws stops where it is); the    *)
(* run started first has the folds of the first kFoldSplit from the seed,  *)
(* the run started second those of the second, and the rng stands where    *)
(* these splits left it, however the callbacks of the two runs interleave. *)
(***************************************************************************)
C29_RunsInOrder ==
    /\ \A r \in DOMAIN runs : PhasesInOrder(runs[r])
    /\ Len(started) = 0 => rng["A"] = randomSeed["A"]
    /\ Len(started) >= 1 => runs[started[1]].folds = FirstSplit.ret.folds
    /\ Len(started) = 1 => rng["A"] = FirstSplit.rng
    /\ Len(started) = 2 => IsSecondSplit(runs[started[2]])

(* Both runs are under way, the one started second having got other folds  *)
(* than the first, and the first has already settled a fold.               *)
C29_Witness ==
    /\ Len(started) = 2
    /\ started[1] = 2
    /\ runs[1].pc = "awaiting"
    /\ runs[2].pc = "awaiting"
    /\ runs[2].i >= 1
    /\ runs[1].i >= 1
    /\ runs[1].folds # runs[2].folds

====
